---- MODULE Spec2Model ----
(***************************************************************************)
(* Model of FintechApiHelper (api-tests helper of YoboAutomationTesting):  *)
(* the response-validation engine (validateApiResponse and the validators  *)
(* it calls), the request wrapper makeApiRequest around it, authentication, *)
(* the stored responses and test data, executeRateLimitTest, and            *)
(* TestUtilities.retry.                                                     *)
(*                                                                         *)
(* JavaScript values are tagged records with the same fields for every     *)
(* kind of value:                                                          *)
(*   t  : "undef" "null" "bool" "num" "nan" "str" "arr" "obj"              *)
(*   sg, n, f : a number is sg * (n + f/1000); a boolean is n = 1 / n = 0  *)
(*   s  : the characters of a string, one 1-character string per element   *)
(*   c  : the own properties of an object or array, in Object.keys order,  *)
(*        as records [k |-> key, v |-> value]; an array's keys are its     *)
(*        indices "0", "1", ...                                            *)
(* JavaScript strings (keys, paths) are sequences of 1-character strings,  *)
(* so that split('.'), template literals and includes() are computed.      *)
(***************************************************************************)
EXTENDS Integers, Sequences, FiniteSets, TLC

VARIABLES
    pc,              \* "ready" before the modelled call, "done" (or its name) after it
    actualBody,      \* validateResponseBody: actualBody argument
    expectedBody,    \* validateResponseBody: expectedBody argument
    isSubset,        \* validateResponseBody: isSubset argument
    nonEmptyFields,  \* validateResponseBody: nonEmptyFields argument
    response,        \* validateApiResponse / makeApiRequest: the axios response
    expectedData,    \* validateApiResponse / makeApiRequest: the test-case document
    result,          \* outcome of the modelled call
    responses,       \* this.responses
    storedTestData,  \* this.storedTestData
    accessToken,     \* this.accessToken
    apiToken,        \* this.apiToken, the configured token ('' when not configured)
    requests,        \* the HTTP requests sent through axios so far
    args             \* further arguments and inputs of the modelled call

vars == <<pc, actualBody, expectedBody, isSubset, nonEmptyFields,
          response, expectedData, result, responses, storedTestData, accessToken,
          apiToken, requests, args>>

(***************************************************************************)
(* Bounds of the model.                                                    *)
(***************************************************************************)
MaxArrayLen == 2
MaxRules == 2
MaxFields == 2
MaxRetries == 3
MaxRequests == 3
MaxCalls == 3

(***************************************************************************)
(* JavaScript values.                                                      *)
(***************************************************************************)
Digits == <<"0", "1", "2", "3", "4", "5", "6", "7", "8", "9">>

RECURSIVE NumToStr(_)
NumToStr(i) ==
    IF i < 10 THEN <<Digits[i + 1]>>
    ELSE NumToStr(i \div 10) \o <<Digits[(i % 10) + 1]>>

JsVal(t, sg, n, f, s, c) == [t |-> t, sg |-> sg, n |-> n, f |-> f, s |-> s, c |-> c]
Undefined == JsVal("undef", 1, 0, 0, <<>>, <<>>)
Null == JsVal("null", 1, 0, 0, <<>>, <<>>)
NaN == JsVal("nan", 1, 0, 0, <<>>, <<>>)
\* Infinity (sg = 1) and -Infinity (sg = -1)
Inf(sg) == JsVal("inf", sg, 0, 0, <<>>, <<>>)
Bool(b) == JsVal("bool", 1, IF b THEN 1 ELSE 0, 0, <<>>, <<>>)
Num(i) == JsVal("num", IF i < 0 THEN -1 ELSE 1, IF i < 0 THEN -i ELSE i, 0, <<>>, <<>>)
Dec(sg, n, f) == JsVal("num", IF n = 0 /\ f = 0 THEN 1 ELSE sg, n, f, <<>>, <<>>)
Str(chars) == JsVal("str", 1, 0, 0, chars, <<>>)
Obj(props) == JsVal("obj", 1, 0, 0, <<>>, props)
Arr(items) ==
    JsVal("arr", 1, 0, 0, <<>>,
          [i \in 1..Len(items) |-> [k |-> NumToStr(i - 1), v |-> items[i]]])
Prop(k, v) == [k |-> k, v |-> v]

\* the property names, separators and string literals of the source
Key ==
    [length |-> <<"l", "e", "n", "g", "t", "h">>,
     dot |-> <<".">>,
     a |-> <<"a">>,
     b |-> <<"b">>,
     items |-> <<"i", "t", "e", "m", "s">>,
     id |-> <<"i", "d">>,
     qty |-> <<"q", "t", "y">>,
     card |-> <<"c", "a", "r", "d">>,
     account |-> <<"a", "c", "c", "o", "u", "n", "t">>,
     c |-> <<"c">>,
     amount |-> <<"a", "m", "o", "u", "n", "t">>,
     txn |-> <<"t", "x", "n">>,
     cItemA |-> <<"c", "[", "0", "]", ".", "a">>,
     availableBalancePath |-> <<"a", "v", "a", "i", "l", "a", "b", "l", "e", "B", "a", "l", "a", "n", "c", "e", "P", "a", "t", "h">>,
     currentBalancePath |-> <<"c", "u", "r", "r", "e", "n", "t", "B", "a", "l", "a", "n", "c", "e", "P", "a", "t", "h">>,
     pendingAmountPath |-> <<"p", "e", "n", "d", "i", "n", "g", "A", "m", "o", "u", "n", "t", "P", "a", "t", "h">>,
     payment |-> <<"p", "a", "y", "m", "e", "n", "t">>,
     transaction |-> <<"t", "r", "a", "n", "s", "a", "c", "t", "i", "o", "n">>,
     unknown |-> <<"u", "n", "k", "n", "o", "w", "n">>,
     status |-> <<"s", "t", "a", "t", "u", "s">>,
     transactionId |-> <<"t", "r", "a", "n", "s", "a", "c", "t", "i", "o", "n", "I", "d">>,
     availableBalance |-> <<"a", "v", "a", "i", "l", "a", "b", "l", "e", "B", "a", "l", "a", "n", "c", "e">>,
     accountId |-> <<"a", "c", "c", "o", "u", "n", "t", "I", "d">>,
     bearer |-> <<"B", "e", "a", "r", "e", "r", " ">>,
     access_token |-> <<"a", "c", "c", "e", "s", "s", "_", "t", "o", "k", "e", "n">>,
     currentBalance |-> <<"c", "u", "r", "r", "e", "n", "t", "B", "a", "l", "a", "n", "c", "e">>]

\* typeof v
TypeOf(v) ==
    CASE v.t = "undef" -> "undefined"
      [] v.t = "bool" -> "boolean"
      [] v.t \in {"num", "nan", "inf"} -> "number"
      [] v.t = "str" -> "string"
      [] OTHER -> "object"

\* Array.isArray(v)
IsArray(v) == v.t = "arr"

\* ToBoolean(v): the truthiness tested by if (v), !v, v || w, v && w
Truthy(v) ==
    CASE v.t \in {"undef", "null", "nan"} -> FALSE
      [] v.t = "bool" -> v.n = 1
      [] v.t = "num" -> v.n # 0 \/ v.f # 0
      [] v.t = "str" -> Len(v.s) > 0
      [] OTHER -> TRUE

\* a === b where one side is a primitive (objects are equal only by identity)
StrictEq(a, b) ==
    /\ a.t \notin {"nan", "obj", "arr"}
    /\ a = b

\* Object.keys(v) for a non-nullish v
ObjectKeys(v) ==
    CASE v.t \in {"obj", "arr"} -> [i \in 1..Len(v.c) |-> v.c[i].k]
      [] v.t = "str" -> [i \in 1..Len(v.s) |-> NumToStr(i - 1)]
      [] OTHER -> <<>>

InSeq(x, seq) == \E i \in 1..Len(seq) : seq[i] = x
MinOf(S) == CHOOSE i \in S : \A j \in S : i <= j

\* v[key] for a non-nullish v (prototype properties other than length are
\* not modelled: they are functions, never compared by the validators)
GetProp(v, key) ==
    CASE v.t \in {"obj", "arr"} /\ InSeq(key, ObjectKeys(v)) ->
           v.c[CHOOSE i \in 1..Len(v.c) : v.c[i].k = key].v
      [] v.t = "arr" /\ key = Key.length -> Num(Len(v.c))
      [] v.t = "str" /\ InSeq(key, ObjectKeys(v)) ->
           Str(<<v.s[CHOOSE i \in 1..Len(v.s) : NumToStr(i - 1) = key]>>)
      [] v.t = "str" /\ key = Key.length -> Num(Len(v.s))
      [] OTHER -> Undefined

\* (variant: presence tested by truthiness, if (!actualBody[key]))
HasOwnPropertyTruthy(v, key) == Truthy(GetProp(v, key))

\* v.hasOwnProperty(key) for a non-nullish v
HasOwnProperty(v, key) ==
    CASE v.t = "obj" -> InSeq(key, ObjectKeys(v))
      [] v.t \in {"arr", "str"} -> InSeq(key, ObjectKeys(v)) \/ key = Key.length
      [] OTHER -> FALSE

(***************************************************************************)
(* Outcome of a call: the error it throws (kind "none" when it returns),   *)
(* the console.warn calls it made, and the field paths whose check it      *)
(* started, in order.  In an error, key is the text interpolated into the  *)
(* message; at is the field path where it was thrown, recorded for the     *)
(* properties only (the message does not carry it).                        *)
(***************************************************************************)
Err(kind, key, at, index, expected, got) ==
    [kind |-> kind, key |-> key, at |-> at, index |-> index,
     expected |-> expected, got |-> got]
NoError == Err("none", <<>>, <<>>, 0, Undefined, Undefined)
Outcome(err, warns, log) == [err |-> err, warns |-> warns, log |-> log]
Ok == Outcome(NoError, <<>>, <<>>)
Raised(o) == o.err.kind # "none"
\* (variant: a throw does not end the walk; the last error is the one raised)
ThenLastError(p, q) ==
    Outcome(IF Raised(q) THEN q.err ELSE p.err, p.warns \o q.warns, p.log \o q.log)

\* run p, then q unless p threw
Then(p, q) ==
    IF Raised(p) THEN p
    ELSE Outcome(q.err, p.warns \o q.warns, p.log \o q.log)

(***************************************************************************)
(* validateResponseBody (part_001:364-450).                                *)
(***************************************************************************)

\* const fieldPath = currentPath ? `${currentPath}.${key}` : key
FieldPath(currentPath, key) ==
    IF Len(currentPath) > 0 THEN currentPath \o Key.dot \o key ELSE key

\* `${fieldPath}[${index}]`, index counted from 0
ItemPath(fieldPath, index) == fieldPath \o <<"[">> \o NumToStr(index) \o <<"]">>

\* const isNonEmptyField = nonEmptyFields.includes(fieldPath)
IsNonEmptyField(nonEmpty, fieldPath) == InSeq(fieldPath, nonEmpty)

\* (variant: the last expected element is the template)
TemplateItemLast(expectedValue) == expectedValue.c[Len(expectedValue.c)].v

\* const templateItem = expectedValue[0]
TemplateItem(expectedValue) == expectedValue.c[1].v

\* (variant: extra properties are an error in exact mode)
ExtraPropertiesFatal(actual, expected, isSub, currentPath) ==
    LET actualKeys == IF Truthy(actual) THEN ObjectKeys(actual) ELSE <<>>
        extra == {i \in 1..Len(actualKeys) : ~InSeq(actualKeys[i], ObjectKeys(expected))}
    IN  IF ~isSub /\ extra # {}
        THEN Outcome(Err("Extra properties", <<>>, currentPath, 0, Undefined, Undefined),
                     <<>>, <<>>)
        ELSE Ok

\* The extra-properties check of exact mode: a warning, never an error.
ExtraProperties(actual, expected, isSub, currentPath) ==
    LET actualKeys == IF Truthy(actual) THEN ObjectKeys(actual) ELSE <<>>
        expectedKeys == ObjectKeys(expected)
        extra == {i \in 1..Len(actualKeys) : ~InSeq(actualKeys[i], expectedKeys)}
    IN  IF ~isSub /\ extra # {}
        THEN Outcome(NoError, <<[kind |-> "Extra properties", at |-> currentPath]>>, <<>>)
        ELSE Ok

\* (variant: the value is compared even for a nonEmptyFields path)
PrimitiveMatchNoSkip(actualValue, expectedValue, key, fieldPath, nonEmpty) ==
    IF StrictEq(actualValue, expectedValue) THEN Ok
    ELSE Outcome(Err("Value mismatch", key, fieldPath, 0, expectedValue, actualValue),
                 <<>>, <<>>)

\* The primitive branch: skipped for a nonEmptyFields path, else strict equality.
PrimitiveMatch(actualValue, expectedValue, key, fieldPath, nonEmpty) ==
    IF IsNonEmptyField(nonEmpty, fieldPath) THEN Ok
    ELSE IF StrictEq(actualValue, expectedValue) THEN Ok
    ELSE IF expectedValue.t \notin {"null", "undef"}
         THEN Outcome(Err("Value mismatch", key, fieldPath, 0, expectedValue, actualValue),
                      <<>>, <<>>)
         ELSE Outcome(Err("Null/undefined mismatch", key, fieldPath, 0,
                          expectedValue, actualValue), <<>>, <<>>)

RECURSIVE ValidateResponseBody(_, _, _, _, _)
RECURSIVE ForEachKey(_, _, _, _, _, _)
RECURSIVE ForEachItem(_, _, _, _, _, _)
RECURSIVE ForEachItemType(_, _, _, _, _)

\* actualValue.forEach((item, index) => this.validateResponseBody(item,
\*   templateItem, isSubset, nonEmptyFields, `${fieldPath}[${index}]`)), from
\* the item at position i (1-based) on; stops at the first throw.
ForEachItem(actualValue, templateItem, isSub, nonEmpty, fieldPath, i) ==
    IF i > Len(actualValue.c) THEN Ok
    ELSE Then(Outcome(NoError, <<>>, <<ItemPath(fieldPath, i - 1)>>),
         Then(ValidateResponseBody(actualValue.c[i].v, templateItem, isSub, nonEmpty,
                                   ItemPath(fieldPath, i - 1)),
              ForEachItem(actualValue, templateItem, isSub, nonEmpty, fieldPath, i + 1)))

\* actualValue.forEach((item, index) => { if (typeof item !== typeof
\*   templateItem) throw ... }), from the item at position i on.
ForEachItemType(actualValue, templateItem, key, fieldPath, i) ==
    IF i > Len(actualValue.c) THEN Ok
    ELSE IF TypeOf(actualValue.c[i].v) # TypeOf(templateItem)
         THEN Outcome(Err("Array item type mismatch", key, ItemPath(fieldPath, i - 1),
                          i - 1, templateItem, actualValue.c[i].v),
                      <<>>, <<ItemPath(fieldPath, i - 1)>>)
         ELSE Then(Outcome(NoError, <<>>, <<ItemPath(fieldPath, i - 1)>>),
                   ForEachItemType(actualValue, templateItem, key, fieldPath, i + 1))

\* The array branch (part_001:396-418).
ArrayBranch(actualValue, expectedValue, key, fieldPath, isSub, nonEmpty) ==
    IF ~IsArray(actualValue)
    THEN Outcome(Err("should be an array", key, fieldPath, 0, expectedValue, actualValue),
                 <<>>, <<>>)
    ELSE IF Len(expectedValue.c) > 0
         THEN LET templateItem == TemplateItem(expectedValue)
              IN  IF TypeOf(templateItem) = "object" /\ templateItem.t # "null"
                  THEN ForEachItem(actualValue, templateItem, isSub, nonEmpty, fieldPath, 1)
                  ELSE ForEachItemType(actualValue, templateItem, key, fieldPath, 1)
         ELSE Ok

\* The nested-object branch (part_001:419-425).
ObjectBranch(actualValue, expectedValue, key, fieldPath, isSub, nonEmpty) ==
    IF TypeOf(actualValue) # "object" \/ actualValue.t = "null"
    THEN Outcome(Err("should be an object", key, fieldPath, 0, expectedValue, actualValue),
                 <<>>, <<>>)
    ELSE ValidateResponseBody(actualValue, expectedValue, isSub, nonEmpty, fieldPath)

\* The body of the Object.keys(expectedBody).forEach callback for one key
\* (part_001:382-447).  actualBody.hasOwnProperty throws a TypeError when
\* actualBody is null or undefined.
CheckKey(actual, expected, isSub, nonEmpty, currentPath, key) ==
    LET fieldPath == FieldPath(currentPath, key)
        actualValue == GetProp(actual, key)
        expectedValue == GetProp(expected, key)
        visit == Outcome(NoError, <<>>, <<fieldPath>>)
    IN  IF actual.t \in {"null", "undef"}
        THEN Outcome(Err("TypeError", key, fieldPath, 0, expectedValue, actual),
                     <<>>, <<fieldPath>>)
        ELSE IF ~HasOwnProperty(actual, key)
        THEN Outcome(Err("Missing property", key, fieldPath, 0, expectedValue, Undefined),
                     <<>>, <<fieldPath>>)
        ELSE IF IsArray(expectedValue)
        THEN Then(visit, ArrayBranch(actualValue, expectedValue, key, fieldPath, isSub, nonEmpty))
        ELSE IF expectedValue.t # "null" /\ TypeOf(expectedValue) = "object"
        THEN Then(visit, ObjectBranch(actualValue, expectedValue, key, fieldPath, isSub, nonEmpty))
        ELSE Then(visit, PrimitiveMatch(actualValue, expectedValue, key, fieldPath, nonEmpty))

\* Object.keys(expectedBody).forEach(key => ...), from the key at position i
\* on; a throw in the callback ends the loop.
ForEachKey(actual, expected, isSub, nonEmpty, currentPath, i) ==
    IF i > Len(ObjectKeys(expected)) THEN Ok
    ELSE Then(CheckKey(actual, expected, isSub, nonEmpty, currentPath, ObjectKeys(expected)[i]),
              ForEachKey(actual, expected, isSub, nonEmpty, currentPath, i + 1))

ValidateResponseBody(actual, expected, isSub, nonEmpty, currentPath) ==
    IF ~Truthy(expected) \/ TypeOf(expected) # "object" THEN Ok
    ELSE Then(ExtraProperties(actual, expected, isSub, currentPath),
              ForEachKey(actual, expected, isSub, nonEmpty, currentPath, 1))

(***************************************************************************)
(* JavaScript strings and numbers used by the field validators.            *)
(***************************************************************************)
WhiteSpace == {" ", "\t", "\n"}
DigitChars == {Digits[i] : i \in 1..10}

\* s.includes(sub)
Includes(s, sub) ==
    \E i \in 1..(Len(s) - Len(sub) + 1) : SubSeq(s, i, i + Len(sub) - 1) = sub

\* s.split('.')
RECURSIVE SplitDot(_)
SplitDot(s) ==
    IF \A i \in 1..Len(s) : s[i] # "."
    THEN <<s>>
    ELSE LET d == MinOf({i \in 1..Len(s) : s[i] = "."})
         IN  <<SubSeq(s, 1, d - 1)>> \o SplitDot(SubSeq(s, d + 1, Len(s)))

\* s.trim()
RECURSIVE TrimStart(_)
TrimStart(s) == IF s # <<>> /\ s[1] \in WhiteSpace THEN TrimStart(Tail(s)) ELSE s
RECURSIVE TrimEnd(_)
TrimEnd(s) ==
    IF s # <<>> /\ s[Len(s)] \in WhiteSpace THEN TrimEnd(SubSeq(s, 1, Len(s) - 1)) ELSE s
Trim(s) == TrimEnd(TrimStart(s))

\* the longest prefix of s made of digits
RECURSIVE DigitPrefix(_)
DigitPrefix(s) ==
    IF s # <<>> /\ s[1] \in DigitChars THEN <<s[1]>> \o DigitPrefix(Tail(s)) ELSE <<>>

\* the value of a digit string
RECURSIVE DigitsValue(_)
DigitsValue(ds) ==
    IF ds = <<>> THEN 0
    ELSE 10 * DigitsValue(SubSeq(ds, 1, Len(ds) - 1))
         + ((CHOOSE i \in 1..10 : Digits[i] = ds[Len(ds)]) - 1)

\* parseFloat(s) for decimal literals and Infinity: leading blanks, a sign,
\* then Infinity or digits, a point and digits; anything after the literal is
\* ignored and no literal gives NaN.  (Exponents are not in the strings
\* modelled; decimals beyond the third are dropped.)
ParseFloat(s) ==
    LET t == TrimStart(s)
        neg == t # <<>> /\ t[1] = "-"
        u == IF t # <<>> /\ t[1] \in {"-", "+"} THEN Tail(t) ELSE t
        ip == DigitPrefix(u)
        rest == SubSeq(u, Len(ip) + 1, Len(u))
        fp == IF rest # <<>> /\ rest[1] = "." THEN DigitPrefix(Tail(rest)) ELSE <<>>
    IN  IF Len(u) >= 8 /\ SubSeq(u, 1, 8) = <<"I", "n", "f", "i", "n", "i", "t", "y">>
        THEN Inf(IF neg THEN -1 ELSE 1)
        ELSE IF ip = <<>> /\ fp = <<>> THEN NaN
        ELSE Dec(IF neg THEN -1 ELSE 1, DigitsValue(ip),
                 DigitsValue(SubSeq(fp \o <<"0", "0", "0">>, 1, 3)))

\* (variant: the bound itself is excluded, x >= bound)
GreaterOrEqualInt(x, bound) == x.sg = 1 /\ (x.t = "inf" \/ x.n >= bound)

\* x > bound and x < -bound for a number x and an integer bound >= 0
GreaterThanInt(x, bound) ==
    x.sg = 1 /\ (x.t = "inf" \/ x.n > bound \/ (x.n = bound /\ x.f > 0))
LessThanNegInt(x, bound) ==
    x.sg = -1 /\ (x.t = "inf" \/ x.n > bound \/ (x.n = bound /\ x.f > 0))

(***************************************************************************)
(* getNestedProperty (part_001:508-512).                                   *)
(***************************************************************************)
RECURSIVE Reduce(_, _)
\* keys.reduce((current, key) => current && current[key] !== undefined
\*                                 ? current[key] : undefined, obj)
Reduce(current, keys) ==
    IF keys = <<>> THEN current
    ELSE Reduce(IF Truthy(current) /\ GetProp(current, keys[1]).t # "undef"
                THEN GetProp(current, keys[1]) ELSE Undefined,
                Tail(keys))

\* (variant: a bracketed index is a path segment of its own, items[0].id
\* being items, 0, id)
GetNestedPropertyIndexed(obj, path) ==
    Reduce(obj, SplitDot(SelectSeq([i \in 1..Len(path) |->
                                        IF path[i] = "[" THEN "." ELSE path[i]],
                                   LAMBDA ch : ch # "]")))

GetNestedProperty(obj, path) == Reduce(obj, SplitDot(path))

\* the strings of a JavaScript array of strings (a list of field paths)
PathList(list) == [i \in 1..Len(list.c) |-> list.c[i].v.s]

Throw(kind, at, got) == Outcome(Err(kind, at, at, 0, Undefined, got), <<>>, <<>>)
Warn(kind, at) == Outcome(NoError, <<[kind |-> kind, at |-> at]>>, <<>>)

(***************************************************************************)
(* validateNonEmptyFields (part_001:457-500).                              *)
(***************************************************************************)
\* (variant: emptiness tested by falsiness, if (!fieldValue))
NonEmptyCheckFalsy(responseBody, fieldPath) ==
    IF ~Truthy(GetNestedProperty(responseBody, fieldPath))
    THEN Throw("should exist", fieldPath, GetNestedProperty(responseBody, fieldPath))
    ELSE Ok

NonEmptyCheck(responseBody, fieldPath) ==
    LET fieldValue == GetNestedProperty(responseBody, fieldPath)
    IN  IF fieldValue.t = "undef" THEN Throw("should exist", fieldPath, fieldValue)
        ELSE IF fieldValue.t = "null" THEN Throw("should not be null", fieldPath, fieldValue)
        ELSE IF TypeOf(fieldValue) = "string"
        THEN IF Trim(fieldValue.s) = <<>>
             THEN Throw("String should not be empty", fieldPath, fieldValue) ELSE Ok
        ELSE IF IsArray(fieldValue)
        THEN IF Len(fieldValue.c) = 0
             THEN Throw("Array should not be empty", fieldPath, fieldValue) ELSE Ok
        ELSE IF TypeOf(fieldValue) = "object"
        THEN IF Len(ObjectKeys(fieldValue)) = 0
             THEN Throw("Object should not be empty", fieldPath, fieldValue) ELSE Ok
        ELSE IF TypeOf(fieldValue) = "number"
        THEN IF fieldValue.t = "nan"
             THEN Throw("Number should not be NaN", fieldPath, fieldValue) ELSE Ok
        ELSE Ok

\* nonEmptyFields.forEach(fieldPath => ...) from position i on; a throw ends
\* the loop
RECURSIVE NonEmptyForEach(_, _, _)
NonEmptyForEach(responseBody, paths, i) ==
    IF i > Len(paths) THEN Ok
    ELSE Then(NonEmptyCheck(responseBody, paths[i]),
              NonEmptyForEach(responseBody, paths, i + 1))

ValidateNonEmptyFields(responseBody, nonEmpty) ==
    IF ~Truthy(nonEmpty) \/ ~IsArray(nonEmpty) THEN Ok
    ELSE NonEmptyForEach(responseBody, PathList(nonEmpty), 1)

(***************************************************************************)
(* validateMonetaryAmounts (part_001:519-544).                             *)
(***************************************************************************)
AmountBound == 1000000000

\* the decimal-precision check: a warning
DecimalPrecision(amount, fieldPath) ==
    IF TypeOf(amount) = "string" /\ Includes(amount.s, Key.dot)
    THEN LET decimalPlaces == Len(SplitDot(amount.s)[2])
         IN  IF decimalPlaces > 2 THEN Warn("More than 2 decimal places", fieldPath) ELSE Ok
    ELSE Ok

AmountCheck(responseBody, fieldPath) ==
    LET amount == GetNestedProperty(responseBody, fieldPath)
        numericAmount == IF TypeOf(amount) = "string" THEN ParseFloat(amount.s) ELSE amount
    IN  IF amount.t \in {"null", "undef"} THEN Ok
        ELSE IF TypeOf(numericAmount) # "number" \/ numericAmount.t = "nan"
        THEN Throw("Invalid amount format", fieldPath, amount)
        ELSE IF LessThanNegInt(numericAmount, AmountBound)
                  \/ GreaterThanInt(numericAmount, AmountBound)
        THEN Throw("Amount out of reasonable bounds", fieldPath, amount)
        ELSE DecimalPrecision(amount, fieldPath)

RECURSIVE AmountForEach(_, _, _)
AmountForEach(responseBody, paths, i) ==
    IF i > Len(paths) THEN Ok
    ELSE Then(AmountCheck(responseBody, paths[i]), AmountForEach(responseBody, paths, i + 1))

\* amountFields.forEach throws a TypeError when amountFields is not an array
ValidateMonetaryAmounts(responseBody, amountFields) ==
    IF ~IsArray(amountFields) THEN Throw("TypeError", <<>>, amountFields)
    ELSE AmountForEach(responseBody, PathList(amountFields), 1)

(***************************************************************************)
(* validateTransactionIds (part_001:551-570).                              *)
(***************************************************************************)
IdChars ==
    DigitChars \cup {"_", "-"}
    \cup {"a", "b", "c", "d", "e", "f", "g", "h", "i", "j", "k", "l", "m",
          "n", "o", "p", "q", "r", "s", "t", "u", "v", "w", "x", "y", "z"}
    \cup {"A", "B", "C", "D", "E", "F", "G", "H", "I", "J", "K", "L", "M",
          "N", "O", "P", "Q", "R", "S", "T", "U", "V", "W", "X", "Y", "Z"}

\* /^[A-Za-z0-9_-]+$/.test(s)
MatchesIdPattern(s) == Len(s) >= 1 /\ \A i \in 1..Len(s) : s[i] \in IdChars

MinIdLength == 5

TransactionIdCheck(responseBody, fieldPath) ==
    LET transactionId == GetNestedProperty(responseBody, fieldPath)
    IN  IF ~Truthy(transactionId) THEN Ok
        ELSE IF TypeOf(transactionId) # "string"
        THEN Throw("Transaction ID should be a string", fieldPath, transactionId)
        ELSE IF Len(transactionId.s) <= MinIdLength
        THEN Throw("Transaction ID is too short", fieldPath, transactionId)
        ELSE IF ~MatchesIdPattern(transactionId.s)
        THEN Throw("Invalid transaction ID format", fieldPath, transactionId)
        ELSE Ok

RECURSIVE TransactionIdForEach(_, _, _)
TransactionIdForEach(responseBody, paths, i) ==
    IF i > Len(paths) THEN Ok
    ELSE Then(TransactionIdCheck(responseBody, paths[i]),
              TransactionIdForEach(responseBody, paths, i + 1))

\* transactionIdFields.forEach throws a TypeError when it is not an array
ValidateTransactionIds(responseBody, transactionIdFields) ==
    IF ~IsArray(transactionIdFields) THEN Throw("TypeError", <<>>, transactionIdFields)
    ELSE TransactionIdForEach(responseBody, PathList(transactionIdFields), 1)

(***************************************************************************)
(* validateSensitiveDataMasking (part_001:577-597): warnings only.         *)
(***************************************************************************)

IsMasked(s) ==
    \/ Includes(s, <<"*", "*", "*">>)
    \/ Includes(s, <<"X", "X", "X">>)
    \/ Includes(s, <<"*", "*", "*", "*">>)

\* (variant: an unmasked sensitive field is an error)
MaskingCheckFatal(responseBody, fieldPath) ==
    LET fieldValue == GetNestedProperty(responseBody, fieldPath)
    IN  IF Truthy(fieldValue) /\ TypeOf(fieldValue) = "string"
           /\ (Includes(fieldPath, Key.card) \/ Includes(fieldPath, Key.account))
           /\ ~IsMasked(fieldValue.s)
        THEN Throw("should be masked", fieldPath, fieldValue)
        ELSE Ok

MaskingCheck(responseBody, fieldPath) ==
    LET fieldValue == GetNestedProperty(responseBody, fieldPath)
    IN  IF Truthy(fieldValue) /\ TypeOf(fieldValue) = "string"
           /\ (Includes(fieldPath, Key.card) \/ Includes(fieldPath, Key.account))
           /\ ~IsMasked(fieldValue.s)
        THEN Warn("should be masked", fieldPath)
        ELSE Ok

RECURSIVE MaskingForEach(_, _, _)
MaskingForEach(responseBody, paths, i) ==
    IF i > Len(paths) THEN Ok
    ELSE Then(MaskingCheck(responseBody, paths[i]), MaskingForEach(responseBody, paths, i + 1))

\* sensitiveFields.forEach throws a TypeError when it is not an array
ValidateSensitiveDataMasking(responseBody, sensitiveFields) ==
    IF ~IsArray(sensitiveFields) THEN Throw("TypeError", <<>>, sensitiveFields)
    ELSE MaskingForEach(responseBody, PathList(sensitiveFields), 1)

(***************************************************************************)
(* validateSecurityHeaders (part_001:603-631): warnings only.  headers is  *)
(* the record of the four headers read, each a string or undefined.        *)
(***************************************************************************)
HeaderValue ==
    [star |-> Str(<<"*">>),
     nosniff |-> Str(<<"n", "o", "s", "n", "i", "f", "f">>),
     deny |-> Str(<<"D", "E", "N", "Y">>),
     sameOrigin |-> Str(<<"S", "A", "M", "E", "O", "R", "I", "G", "I", "N">>),
     json |-> Str(<<"j", "s", "o", "n">>),
     allow |-> Str(<<"A", "L", "L", "O", "W">>)]

WarnIf(cond, kind) == IF cond THEN Warn(kind, <<>>) ELSE Ok

ValidateSecurityHeaders(resp) ==
    LET headers == resp.headers
    IN  Then(WarnIf(~Truthy(headers.contentType), "Content-Type header missing"),
        Then(WarnIf(Truthy(headers.allowOrigin) /\ StrictEq(headers.allowOrigin, HeaderValue.star),
                    "Access-Control-Allow-Origin should not be *"),
        Then(WarnIf(Truthy(headers.contentTypeOptions)
                        /\ ~StrictEq(headers.contentTypeOptions, HeaderValue.nosniff),
                    "X-Content-Type-Options should be nosniff"),
             WarnIf(Truthy(headers.frameOptions)
                        /\ ~StrictEq(headers.frameOptions, HeaderValue.deny)
                        /\ ~StrictEq(headers.frameOptions, HeaderValue.sameOrigin),
                    "X-Frame-Options should be DENY or SAMEORIGIN"))))

(***************************************************************************)
(* validateApiResponse (part_001:300-354).  A document (expectedData) is a *)
(* record of JavaScript values, Undefined for an absent property.  Each    *)
(* pass that runs leaves its name in the log.                              *)
(***************************************************************************)
Pass(name) == Outcome(NoError, <<>>, <<<<name>>>>)

\* a > b for response.duration (a number or undefined) and a threshold
DurationExceeds(a, b) ==
    /\ a.t = "num" /\ b.t = "num"
    /\ \/ a.sg = 1 /\ b.sg = -1
       \/ a.sg = 1 /\ b.sg = 1 /\ (a.n > b.n \/ (a.n = b.n /\ a.f > b.f))
       \/ a.sg = -1 /\ b.sg = -1 /\ (a.n < b.n \/ (a.n = b.n /\ a.f < b.f))

StatusPass(resp, doc) ==
    IF Truthy(doc.expectedStatus)
    THEN Then(Pass("status"),
              IF ~StrictEq(resp.status, doc.expectedStatus)
              THEN Outcome(Err("Status mismatch", <<>>, <<>>, 0, doc.expectedStatus, resp.status),
                           <<>>, <<>>)
              ELSE Ok)
    ELSE Ok

ResponseTimePass(resp, doc) ==
    IF Truthy(doc.expectedResponseTime)
    THEN Then(Pass("responseTime"),
              WarnIf(DurationExceeds(resp.duration, doc.expectedResponseTime),
                     "Response time exceeded"))
    ELSE Ok

SecurityHeadersPass(resp, doc) == Then(Pass("securityHeaders"), ValidateSecurityHeaders(resp))

\* expectedData.nonEmptyFields || []
NonEmptyOrNone(doc) ==
    IF Truthy(doc.nonEmptyFields) THEN PathList(doc.nonEmptyFields) ELSE <<>>

ExactBodyPass(resp, doc) ==
    IF Truthy(doc.expectedBody)
    THEN Then(Pass("expectedBody"),
              ValidateResponseBody(resp.data, doc.expectedBody, FALSE, NonEmptyOrNone(doc), <<>>))
    ELSE Ok

SubsetBodyPass(resp, doc) ==
    IF Truthy(doc.subsetExpectedBody)
    THEN Then(Pass("subsetExpectedBody"),
              ValidateResponseBody(resp.data, doc.subsetExpectedBody, TRUE,
                                   NonEmptyOrNone(doc), <<>>))
    ELSE Ok

NonEmptyPass(resp, doc) ==
    IF Truthy(doc.nonEmptyFields) /\ IsArray(doc.nonEmptyFields)
    THEN Then(Pass("nonEmptyFields"), ValidateNonEmptyFields(resp.data, doc.nonEmptyFields))
    ELSE Ok

AmountsPass(resp, doc) ==
    IF Truthy(doc.validateAmounts)
    THEN Then(Pass("amounts"), ValidateMonetaryAmounts(resp.data, doc.amountFields))
    ELSE Ok

TransactionIdsPass(resp, doc) ==
    IF Truthy(doc.validateTransactionIds)
    THEN Then(Pass("transactionIds"),
              ValidateTransactionIds(resp.data, doc.transactionIdFields))
    ELSE Ok

MaskingPass(resp, doc) ==
    IF Truthy(doc.validateDataMasking)
    THEN Then(Pass("masking"), ValidateSensitiveDataMasking(resp.data, doc.sensitiveFields))
    ELSE Ok

\* (variant: the non-empty pass and the classifiers run before the bodies
\* and the status check last)
ValidateApiResponseReordered(resp, doc) ==
    Then(ResponseTimePass(resp, doc),
    Then(SecurityHeadersPass(resp, doc),
    Then(NonEmptyPass(resp, doc),
    Then(AmountsPass(resp, doc),
    Then(TransactionIdsPass(resp, doc),
    Then(ExactBodyPass(resp, doc),
    Then(SubsetBodyPass(resp, doc),
    Then(MaskingPass(resp, doc),
         StatusPass(resp, doc)))))))))

ValidateApiResponse(resp, doc) ==
    Then(StatusPass(resp, doc),
    Then(ResponseTimePass(resp, doc),
    Then(SecurityHeadersPass(resp, doc),
    Then(ExactBodyPass(resp, doc),
    Then(SubsetBodyPass(resp, doc),
    Then(NonEmptyPass(resp, doc),
    Then(AmountsPass(resp, doc),
    Then(TransactionIdsPass(resp, doc),
         MaskingPass(resp, doc)))))))))

(***************************************************************************)
(* JavaScript conversions and comparison used by the custom rules and the  *)
(* balance check.                                                          *)
(***************************************************************************)
\* the characters of the modelled strings, in code-unit order
CharOrder ==
    <<"\t", "\n", " ", "#", "*", "+", ",", "-", ".">> \o Digits
    \o <<"A", "B", "C", "D", "E", "F", "G", "H", "I", "J", "K", "L", "M",
         "N", "O", "P", "Q", "R", "S", "T", "U", "V", "W", "X", "Y", "Z", "[", "]", "_">>
    \o <<"a", "b", "c", "d", "e", "f", "g", "h", "i", "j", "k", "l", "m",
         "n", "o", "p", "q", "r", "s", "t", "u", "v", "w", "x", "y", "z">>
CharCode(ch) == CHOOSE i \in 1..Len(CharOrder) : CharOrder[i] = ch

\* a < b for strings (code-unit order)
RECURSIVE StringLess(_, _)
StringLess(a, b) ==
    IF b = <<>> THEN FALSE
    ELSE IF a = <<>> THEN TRUE
    ELSE IF a[1] # b[1] THEN CharCode(a[1]) < CharCode(b[1])
    ELSE StringLess(Tail(a), Tail(b))

\* Number(s) for a string: blank gives 0, a whole decimal literal its value,
\* anything else NaN
StringToNumber(s) ==
    LET t == Trim(s)
        u == IF t # <<>> /\ t[1] \in {"-", "+"} THEN Tail(t) ELSE t
        ip == DigitPrefix(u)
        rest == SubSeq(u, Len(ip) + 1, Len(u))
        fp == IF rest # <<>> /\ rest[1] = "." THEN DigitPrefix(Tail(rest)) ELSE <<>>
        whole == rest = <<>> \/ (rest[1] = "." /\ Len(rest) = 1 + Len(fp))
    IN  IF t = <<>> THEN Num(0)
        ELSE IF u = <<"I", "n", "f", "i", "n", "i", "t", "y">> THEN ParseFloat(t)
        ELSE IF whole /\ (ip # <<>> \/ fp # <<>>) THEN ParseFloat(t)
        ELSE NaN

\* String(x) for a number x (three decimals, no exponent form)
NumberToString(x) ==
    LET d == <<Digits[(x.f \div 100) + 1], Digits[((x.f \div 10) % 10) + 1],
               Digits[(x.f % 10) + 1]>>
        frac == IF x.f % 100 = 0 THEN SubSeq(d, 1, 1)
                ELSE IF x.f % 10 = 0 THEN SubSeq(d, 1, 2) ELSE d
    IN  (IF x.sg = -1 THEN <<"-">> ELSE <<>>) \o NumToStr(x.n)
        \o (IF x.f = 0 THEN <<>> ELSE <<".">> \o frac)

\* String(v); an array is its elements joined by commas
RECURSIVE ToStringJs(_)
RECURSIVE Join(_, _)
Join(items, i) ==
    IF i > Len(items) THEN <<>>
    ELSE (IF i > 1 THEN <<",">> ELSE <<>>)
         \o (IF items[i].v.t \in {"undef", "null"} THEN <<>> ELSE ToStringJs(items[i].v))
         \o Join(items, i + 1)
ToStringJs(v) ==
    CASE v.t = "undef" -> <<"u", "n", "d", "e", "f", "i", "n", "e", "d">>
      [] v.t = "null" -> <<"n", "u", "l", "l">>
      [] v.t = "nan" -> <<"N", "a", "N">>
      [] v.t = "inf" -> (IF v.sg = -1 THEN <<"-">> ELSE <<>>)
                        \o <<"I", "n", "f", "i", "n", "i", "t", "y">>
      [] v.t = "bool" -> IF v.n = 1 THEN <<"t", "r", "u", "e">> ELSE <<"f", "a", "l", "s", "e">>
      [] v.t = "num" -> NumberToString(v)
      [] v.t = "str" -> v.s
      [] v.t = "arr" -> Join(v.c, 1)
      [] OTHER -> <<"[", "o", "b", "j", "e", "c", "t", " ", "O", "b", "j", "e", "c", "t", "]">>

\* ToPrimitive(v)
ToPrimitive(v) == IF v.t \in {"obj", "arr"} THEN Str(ToStringJs(v)) ELSE v

\* ToNumber(v)
ToNumber(v) ==
    LET p == ToPrimitive(v)
    IN  CASE p.t \in {"num", "inf"} -> p
          [] p.t = "null" -> Num(0)
          [] p.t = "bool" -> Num(p.n)
          [] p.t = "str" -> StringToNumber(p.s)
          [] OTHER -> NaN

\* a number in thousandths
Milli(x) == x.sg * (x.n * 1000 + x.f)

\* a < b for numbers
NumberLess(a, b) ==
    /\ a.t \in {"num", "inf"} /\ b.t \in {"num", "inf"}
    /\ a # b
    /\ \/ a.t = "inf" /\ a.sg = -1
       \/ b.t = "inf" /\ b.sg = 1
       \/ a.t = "num" /\ b.t = "num" /\ a.sg < b.sg
       \/ a.t = "num" /\ b.t = "num" /\ a.sg = 1 /\ b.sg = 1
             /\ (a.n < b.n \/ (a.n = b.n /\ a.f < b.f))
       \/ a.t = "num" /\ b.t = "num" /\ a.sg = -1 /\ b.sg = -1
             /\ (a.n > b.n \/ (a.n = b.n /\ a.f > b.f))

\* a <= b
LessOrEqual(a, b) ==
    LET pa == ToPrimitive(a)
        pb == ToPrimitive(b)
        x == ToNumber(pa)
        y == ToNumber(pb)
    IN  IF pa.t = "str" /\ pb.t = "str"
        THEN pa.s = pb.s \/ StringLess(pa.s, pb.s)
        ELSE x.t \in {"num", "inf"} /\ y.t \in {"num", "inf"} /\ (x = y \/ NumberLess(x, y))

\* parseFloat(v)
ParseFloatOf(v) == IF v.t \in {"num", "inf", "nan"} THEN v ELSE ParseFloat(ToStringJs(v))

(***************************************************************************)
(* executeCustomValidation (part_001:261-293) and validateDataTypes        *)
(* (part_001:707-716).  A rule is a record: field (a path), type and        *)
(* expectedType (strings), expectedLength and expectedValue (values).      *)
(***************************************************************************)
\* fieldValue.includes(expectedValue) for a string or an array fieldValue
IncludesValue(fieldValue, expectedValue) ==
    IF fieldValue.t = "str"
    THEN Includes(fieldValue.s, ToStringJs(expectedValue))
    ELSE \E i \in 1..Len(fieldValue.c) :
             \/ StrictEq(fieldValue.c[i].v, expectedValue)
             \/ fieldValue.c[i].v.t = "nan" /\ expectedValue.t = "nan"

ValidateDataTypes(responseBody, fieldPath, expectedType) ==
    LET fieldValue == GetNestedProperty(responseBody, fieldPath)
    IN  IF TypeOf(fieldValue) # expectedType
        THEN Throw("Type mismatch", fieldPath, fieldValue)
        ELSE Ok

ExecuteCustomValidation(responseBody, validation) ==
    LET fieldValue == GetNestedProperty(responseBody, validation.field)
    IN  CASE validation.type = "arrayLength" ->
               IF ~IsArray(fieldValue)
               THEN Throw("is not an array", validation.field, fieldValue)
               ELSE IF ~StrictEq(Num(Len(fieldValue.c)), validation.expectedLength)
               THEN Throw("Array has wrong length", validation.field, fieldValue)
               ELSE Ok
          [] validation.type = "contains" ->
               IF fieldValue.t \notin {"str", "arr"}
               THEN Throw("TypeError", validation.field, fieldValue)
               ELSE IF ~IncludesValue(fieldValue, validation.expectedValue)
               THEN Throw("does not contain", validation.field, fieldValue)
               ELSE Ok
          [] validation.type = "greaterThan" ->
               IF LessOrEqual(fieldValue, validation.expectedValue)
               THEN Throw("is not greater than", validation.field, fieldValue)
               ELSE Ok
          [] validation.type = "dataType" ->
               ValidateDataTypes(responseBody, validation.field, validation.expectedType)
          [] OTHER -> Ok

\* the rule at position i was evaluated
Rule(i) == Outcome(NoError, <<>>, <<<<"customValidation", NumToStr(i)[1]>>>>)

\* (variant: rule failures are collected and only logged)
RECURSIVE CustomValidationsLogged(_, _, _)
CustomValidationsLogged(responseBody, rules, i) ==
    IF i > Len(rules) THEN Ok
    ELSE Then(Rule(i), CustomValidationsLogged(responseBody, rules, i + 1))

\* testConfig.customValidations.forEach(validation =>
\*   this.executeCustomValidation(response.data, validation)) from position i
RECURSIVE CustomValidations(_, _, _)
CustomValidations(responseBody, rules, i) ==
    IF i > Len(rules) THEN Ok
    ELSE Then(Rule(i),
         Then(ExecuteCustomValidation(responseBody, rules[i]),
              CustomValidations(responseBody, rules, i + 1)))

(***************************************************************************)
(* validatePCICompliance (part_001:778-802): warnings only, not modelled,  *)
(* but JSON.stringify(undefined).match throws a TypeError.                 *)
(***************************************************************************)
ValidatePCICompliance(resp) ==
    IF resp.data.t = "undef" THEN Throw("TypeError", <<>>, resp.data) ELSE Ok

(***************************************************************************)
(* validatePaymentStatusTransition (part_001:750-771).                     *)
(***************************************************************************)
PaymentStatus ==
    [pending |-> Str(<<"p", "e", "n", "d", "i", "n", "g">>),
     processing |-> Str(<<"p", "r", "o", "c", "e", "s", "s", "i", "n", "g">>),
     completed |-> Str(<<"c", "o", "m", "p", "l", "e", "t", "e", "d">>),
     failed |-> Str(<<"f", "a", "i", "l", "e", "d">>),
     cancelled |-> Str(<<"c", "a", "n", "c", "e", "l", "l", "e", "d">>),
     refunded |-> Str(<<"r", "e", "f", "u", "n", "d", "e", "d">>),
     initiated |-> Str(<<"i", "n", "i", "t", "i", "a", "t", "e", "d">>)]

ValidStatuses == {PaymentStatus.pending, PaymentStatus.processing, PaymentStatus.completed, PaymentStatus.failed, PaymentStatus.cancelled, PaymentStatus.refunded, PaymentStatus.initiated}

\* validTransitions[currentStatus], the empty set standing for undefined
ValidTransitions(currentStatus) ==
    CASE currentStatus = PaymentStatus.pending -> {PaymentStatus.initiated, PaymentStatus.processing}
      [] currentStatus = PaymentStatus.processing -> {PaymentStatus.pending}
      [] currentStatus = PaymentStatus.completed -> {PaymentStatus.processing}
      [] currentStatus = PaymentStatus.failed -> {PaymentStatus.pending, PaymentStatus.processing}
      [] currentStatus = PaymentStatus.cancelled -> {PaymentStatus.pending, PaymentStatus.initiated}
      [] currentStatus = PaymentStatus.refunded -> {PaymentStatus.completed}
      [] OTHER -> {}

ValidatePaymentStatusTransition(currentStatus, previousStatus) ==
    IF currentStatus \notin ValidStatuses
    THEN Throw("Invalid payment status", <<>>, currentStatus)
    ELSE IF Truthy(previousStatus) /\ ValidTransitions(currentStatus) # {}
            /\ previousStatus \notin ValidTransitions(currentStatus)
    THEN Throw("Invalid status transition", <<>>, currentStatus)
    ELSE Ok

(***************************************************************************)
(* validateAccountBalance (part_001:723-743).  balanceConfig is an object  *)
(* with the three paths, or undefined.                                     *)
(***************************************************************************)

BalanceTolerance == 10

\* getNestedProperty(responseBody, path) when path may be undefined:
\* path.split throws a TypeError
NestedOrTypeError(responseBody, path) ==
    IF path.t # "str" THEN [ok |-> FALSE, v |-> Undefined]
    ELSE [ok |-> TRUE, v |-> GetNestedProperty(responseBody, path.s)]

ValidateAccountBalance(responseBody, balanceConfig) ==
    IF balanceConfig.t \in {"undef", "null"} THEN Throw("TypeError", <<>>, balanceConfig)
    ELSE LET a == NestedOrTypeError(responseBody, GetProp(balanceConfig, Key.availableBalancePath))
             c == NestedOrTypeError(responseBody, GetProp(balanceConfig, Key.currentBalancePath))
             p == NestedOrTypeError(responseBody, GetProp(balanceConfig, Key.pendingAmountPath))
             available == ParseFloatOf(a.v)
             current == ParseFloatOf(c.v)
             pending == IF Truthy(p.v) THEN ParseFloatOf(p.v) ELSE Num(0)
             Ext(x) == [t |-> x.t, sg |-> x.sg, m |-> IF x.t = "num" THEN Milli(x) ELSE 0]
             Minus(x, y) ==
                 IF x.t = "nan" \/ y.t = "nan" \/ (x.t = "inf" /\ y.t = "inf" /\ x.sg = y.sg)
                 THEN [t |-> "nan", sg |-> 1, m |-> 0]
                 ELSE IF x.t = "inf" THEN x
                 ELSE IF y.t = "inf" THEN [t |-> "inf", sg |-> -y.sg, m |-> 0]
                 ELSE [t |-> "num", sg |-> 1, m |-> x.m - y.m]
             difference == Minus(Ext(available), Minus(Ext(current), Ext(pending)))
         IN  IF ~a.ok \/ ~c.ok \/ ~p.ok THEN Throw("TypeError", <<>>, balanceConfig)
             ELSE IF a.v.t # "null" /\ c.v.t # "null"
                     /\ \/ difference.t = "inf"
                        \/ difference.t = "num"
                              /\ (difference.m >= BalanceTolerance
                                    \/ -difference.m >= BalanceTolerance)
             THEN Throw("Balance validation failed", <<>>, a.v)
             ELSE Ok

(***************************************************************************)
(* performAdditionalValidations (part_001:230-254).                        *)
(***************************************************************************)

\* const testName = testConfig.testName || 'unknown'
TestName(doc) == IF Truthy(doc.testName) THEN doc.testName.s ELSE Key.unknown

CustomValidationsStep(resp, doc) ==
    CustomValidations(resp.data, doc.customValidations, 1)

PCIStep(resp, doc) ==
    IF Includes(TestName(doc), Key.payment) \/ Includes(TestName(doc), Key.transaction)
    THEN ValidatePCICompliance(resp) ELSE Ok

StatusTransitionStep(resp, doc) ==
    IF Truthy(resp.data) /\ Truthy(GetProp(resp.data, Key.status))
           /\ Includes(TestName(doc), Key.payment)
    THEN ValidatePaymentStatusTransition(GetProp(resp.data, Key.status), Undefined)
    ELSE Ok

BalanceStep(resp, doc) ==
    IF Truthy(doc.validateBalanceConsistency)
    THEN ValidateAccountBalance(resp.data, doc.balanceConfig)
    ELSE Ok

PerformAdditionalValidations(resp, doc) ==
    Then(CustomValidationsStep(resp, doc),
    Then(PCIStep(resp, doc),
    Then(StatusTransitionStep(resp, doc),
         BalanceStep(resp, doc))))

(***************************************************************************)
(* storeTestData (part_001:208-223): the stored values after the call.     *)
(***************************************************************************)

\* (variant: each entry is assigned whatever the response carries)
StoreTestDataOverwriting(stored, responseBody) ==
    [transactionId |-> GetProp(responseBody, Key.transactionId),
     accountBalance |-> ParseFloatOf(GetProp(responseBody, Key.availableBalance)),
     accountId |-> GetProp(responseBody, Key.accountId)]

StoreTestData(stored, responseBody) ==
    LET has(key) == Truthy(responseBody) /\ Truthy(GetProp(responseBody, key))
    IN  [transactionId |-> IF has(Key.transactionId) THEN GetProp(responseBody, Key.transactionId)
                           ELSE stored.transactionId,
         accountBalance |-> IF has(Key.availableBalance)
                            THEN ParseFloatOf(GetProp(responseBody, Key.availableBalance))
                            ELSE stored.accountBalance,
         accountId |-> IF has(Key.accountId) THEN GetProp(responseBody, Key.accountId)
                       ELSE stored.accountId]

(***************************************************************************)
(* getHeaders (part_001:180-201): the Authorization header for a token,    *)
(* undefined when no header is set.                                        *)
(***************************************************************************)

Authorization(token) ==
    IF ~Truthy(token) THEN Undefined
    ELSE IF Len(token.s) >= Len(Key.bearer) /\ SubSeq(token.s, 1, Len(Key.bearer)) = Key.bearer
    THEN token
    ELSE Str(Key.bearer \o token.s)

(***************************************************************************)
(* Input universes: the JSON values, expectation bodies and nonEmptyFields *)
(* lists the calls are made with.                                          *)
(***************************************************************************)

SeqsUpTo(S, n) == UNION {[1..m -> S] : m \in 0..n}

\* the objects with the keys ks, in this order, and values in Vals
ObjectsWith(ks, Vals) ==
    {Obj([i \in 1..Len(ks) |-> Prop(ks[i], f[i])]) : f \in [1..Len(ks) -> Vals]}

Leaves == {Null, Num(0), Num(1), Str(<<"x">>)}
Objects == ObjectsWith(<<>>, Leaves) \cup ObjectsWith(<<Key.a>>, {Num(0), Num(1)})
               \cup ObjectsWith(<<Key.a, Key.b>>, {Num(1)})

\* what the arrays of an actual body hold, and the arrays of an expected body
ActualValues ==
    Leaves \cup Objects \cup {Arr(items) : items \in SeqsUpTo(({Null, Num(1)} \cup Objects), MaxArrayLen)}
ExpectedValues ==
    Leaves \cup Objects \cup {Arr(items) : items \in SeqsUpTo(({Null, Num(1), Obj(<<>>), Obj(<<Prop(Key.a, Num(1))>>)}), MaxArrayLen)}

NonEmptyLists == {<<>>, <<Key.a \o <<"[", "1", "]", ".">> \o Key.a, Key.b>>}

\* scenario 4 of the specification (the array template regression case)
ScenarioExpected ==
    Obj(<<Prop(Key.items, Arr(<<Obj(<<Prop(Key.id, Str(<<"x">>)), Prop(Key.qty, Num(1))>>)>>))>>)
ScenarioActual ==
    Obj(<<Prop(Key.items, Arr(<<Obj(<<Prop(Key.id, Str(<<"a">>)), Prop(Key.qty, Num(5))>>),
                             Obj(<<Prop(Key.id, Str(<<"b">>)), Prop(Key.qty, Num(2))>>)>>))>>)

(***************************************************************************)
(* Responses and documents of the validateApiResponse calls.  A response   *)
(* body has the generic field a, an amount, a transaction id and a card    *)
(* number, or the field a and an array c of objects.                       *)
(***************************************************************************)

StrList(paths) == Arr([i \in 1..Len(paths) |-> Str(paths[i])])

FieldAs == {Num(1), Num(0), Str(<<" ">>), Null}

Responses ==
    [status : {Num(200), Num(500)},
     headers : {[contentType |-> HeaderValue.json, allowOrigin |-> Undefined,
                 contentTypeOptions |-> HeaderValue.nosniff, frameOptions |-> HeaderValue.deny],
                [contentType |-> Undefined, allowOrigin |-> HeaderValue.star,
                 contentTypeOptions |-> HeaderValue.allow, frameOptions |-> HeaderValue.allow]},
     data :
         {Obj(<<Prop(Key.a, a), Prop(Key.amount, m), Prop(Key.txn, t), Prop(Key.card, c)>>) :
              a \in FieldAs,
              m \in {Str(<<"1", "0", ".", "5", "0">>), Str(<<"1", "0", ".", "5", "0", "5">>),
                     Str(<<"a", "b", "c">>), Num(1000000001)},
              t \in {Str(<<"T", "X", "N", "_", "1", "2">>), Str(<<"T", "#", "1">>)},
              c \in {Str(<<"4", "1", "1", "1">>), Str(<<"4", "1", "*", "*", "*">>)}}
         \cup {Obj(<<Prop(Key.a, Num(1)), Prop(Key.c, Arr(<<Obj(<<Prop(Key.a, a)>>)>>))>>) :
                  a \in FieldAs}
         \cup {Obj(<<Prop(Key.a, Num(1)), Prop(Key.c, Arr(<<>>))>>),
               Obj(<<Prop(Key.c, Num(1))>>),
               Obj(<<Prop(Key.a, Num(1)), Prop(Key.c, Arr(<<Obj(<<Prop(Key.a, Num(1))>>)>>)),
                     Prop(SubSeq(Key.cItemA, 1, 4), Obj(<<Prop(Key.a, Num(1))>>))>>)}
         \cup {Null, Undefined, Str(<<>>)},
     duration : {Undefined, Num(500)}]

(***************************************************************************)
(* Helper state after construction (part_001:11-18).                       *)
(***************************************************************************)
NoResponse ==
    [status |-> Undefined,
     headers |-> [contentType |-> Undefined, allowOrigin |-> Undefined,
                  contentTypeOptions |-> Undefined, frameOptions |-> Undefined],
     data |-> Undefined, duration |-> Undefined]
NoDocument ==
    [expectedStatus |-> Undefined, expectedResponseTime |-> Undefined,
     expectedBody |-> Undefined, subsetExpectedBody |-> Undefined,
     nonEmptyFields |-> Undefined, validateAmounts |-> Undefined,
     amountFields |-> Undefined, validateTransactionIds |-> Undefined,
     transactionIdFields |-> Undefined, validateDataMasking |-> Undefined,
     sensitiveFields |-> Undefined]
NotRun == Outcome(Err("not run", <<>>, <<>>, 0, Undefined, Undefined), <<>>, <<>>)

NoStoredTestData ==
    [transactionId |-> Undefined, accountBalance |-> Undefined, accountId |-> Undefined]

\* no credentials, auth endpoint answer, token, custom rule or payment statuses
NoArgs ==
    [credentials |-> Undefined, answer |-> Undefined, token |-> Undefined,
     validation |-> Undefined, currentStatus |-> Undefined, previousStatus |-> Undefined]

Constructed ==
    /\ responses = <<>>
    /\ storedTestData = NoStoredTestData
    /\ accessToken = Null
    /\ requests = <<>>

(***************************************************************************)
(* SpecBody: one call validateResponseBody(actualBody, expectedBody,       *)
(* isSubset, nonEmptyFields) with the default currentPath ''.              *)
(***************************************************************************)
InitBody ==
    /\ pc = "ready"
       \* actual bodies: what a JSON response (or an absent one) can be;
       \* expected bodies: what a fixture's expectedBody / subsetExpectedBody can be
    /\ \/ /\ actualBody \in
              ({Undefined, Null, Num(1), Str(<<>>), Str(<<"x">>)}
               \cup ObjectsWith(<<>>, Leaves) \cup ObjectsWith(<<Key.a>>, ActualValues)
               \cup {Obj(<<Prop(Key.b, b), Prop(Key.a, v)>>) :
                        b \in {Null, Num(1)}, v \in ActualValues}
               \cup {Arr(<<Num(1)>>), Arr(<<Obj(<<Prop(Key.a, Num(1))>>), Obj(<<>>)>>)})
          /\ expectedBody \in
              ({Null, Num(1), Str(<<"x">>)}
               \cup ObjectsWith(<<>>, Leaves) \cup ObjectsWith(<<Key.a>>, ExpectedValues)
               \cup {Obj(<<Prop(Key.a, v), Prop(Key.b, Num(1))>>) : v \in ExpectedValues}
               \cup {Arr(<<Num(1)>>), Arr(<<Obj(<<Prop(Key.a, Num(1))>>), Obj(<<>>)>>)})
          /\ nonEmptyFields \in NonEmptyLists
       \/ /\ actualBody = ScenarioActual
          /\ expectedBody = ScenarioExpected
          /\ nonEmptyFields = <<>>
    /\ isSubset \in BOOLEAN
    /\ response = NoResponse
    /\ expectedData = NoDocument
    /\ result = NotRun
    /\ Constructed
    /\ args = NoArgs
    /\ apiToken = Str(<<>>)

CallValidateResponseBody ==
    /\ pc = "ready"
    /\ result' = ValidateResponseBody(actualBody, expectedBody, isSubset, nonEmptyFields, <<>>)
    /\ pc' = "done"
    /\ UNCHANGED <<actualBody, expectedBody, isSubset, nonEmptyFields, response,
                   expectedData, responses, storedTestData, accessToken, apiToken, requests,
                   args>>

NextBody == CallValidateResponseBody

SpecBody == InitBody /\ [][NextBody]_vars

(***************************************************************************)
(* SpecSelf: one call validateResponseBody(v, v, isSubset, nonEmptyFields):*)
(* a value validated against itself.                                       *)
(***************************************************************************)
InitSelf ==
    /\ pc = "ready"
       \* the values validated against themselves: objects, arrays (of
       \* primitives, of objects, of arrays), primitives and null, nested
    /\ actualBody \in
        (ActualValues \cup {Bool(TRUE), Bool(FALSE), Str(<<>>)}
         \cup ObjectsWith(<<Key.a>>, ActualValues)
         \cup {Obj(<<Prop(Key.a, v), Prop(Key.b, w)>>) :
                  v \in ActualValues, w \in {Num(1), Arr(<<Obj(<<Prop(Key.a, Num(1))>>)>>)}}
         \cup {Arr(<<v, w>>) : v, w \in {Num(1), Arr(<<Num(1)>>), Arr(<<Num(0), Num(1)>>),
                                          Obj(<<Prop(Key.a, Num(1))>>),
                                          Obj(<<Prop(Key.a, Arr(<<Null, Null>>))>>)}})
    /\ expectedBody = actualBody
    /\ nonEmptyFields \in NonEmptyLists
    /\ isSubset \in BOOLEAN
    /\ response = NoResponse
    /\ expectedData = NoDocument
    /\ result = NotRun
    /\ Constructed
    /\ args = NoArgs
    /\ apiToken = Str(<<>>)

NextSelf == CallValidateResponseBody

SpecSelf == InitSelf /\ [][NextSelf]_vars

(***************************************************************************)
(* SpecApi: validateApiResponse(response, expectedData), called once and   *)
(* then once more on the same pair.                                        *)
(***************************************************************************)
InitApi ==
    /\ pc = "ready"
    /\ response \in Responses
    /\ expectedData \in
        ([expectedStatus : {Undefined, Num(200)},
          expectedResponseTime : {Undefined, Num(100)},
          expectedBody : ({Undefined, Obj(<<Prop(Key.a, Num(1))>>),
                          Obj(<<Prop(Key.a, Num(1)), Prop(Key.c, Arr(<<Obj(<<Prop(Key.a, Num(1))>>)>>))>>)}),
          subsetExpectedBody : {Undefined, Obj(<<Prop(Key.a, Num(1))>>)},
          nonEmptyFields : {Undefined, StrList(<<Key.a>>), StrList(<<Key.cItemA>>)},
          validateAmounts : {Undefined, Bool(TRUE)},
          amountFields : {StrList(<<Key.amount>>)},
          validateTransactionIds : {Undefined, Bool(TRUE)},
          transactionIdFields : {StrList(<<Key.txn>>)},
          validateDataMasking : {Undefined, Bool(TRUE)},
          sensitiveFields : {StrList(<<Key.card>>)}])
    /\ actualBody = Undefined
    /\ expectedBody = Undefined
    /\ nonEmptyFields = <<>>
    /\ isSubset = FALSE
    /\ result = NotRun
    /\ Constructed
    /\ args = NoArgs
    /\ apiToken = Str(<<>>)

\* (variant: the validated response is pushed on this.responses)
CallValidateApiResponseRecording ==
    /\ pc \in {"ready", "done"}
    /\ result' = ValidateApiResponse(response, expectedData)
    /\ pc' = IF pc = "ready" THEN "done" ELSE "again"
    /\ responses' = Append(responses, [status |-> response.status, data |-> response.data,
                                       duration |-> response.duration])
    /\ UNCHANGED <<actualBody, expectedBody, isSubset, nonEmptyFields, response,
                   expectedData, storedTestData, accessToken, apiToken, requests, args>>

CallValidateApiResponse ==
    /\ pc \in {"ready", "done"}
    /\ result' = ValidateApiResponse(response, expectedData)
    /\ pc' = IF pc = "ready" THEN "done" ELSE "again"
    /\ UNCHANGED <<actualBody, expectedBody, isSubset, nonEmptyFields, response,
                   expectedData, responses, storedTestData, accessToken, apiToken, requests,
                   args>>

NextApi == CallValidateApiResponse

SpecApi == InitApi /\ [][NextApi]_vars

(***************************************************************************)
(* authenticateAndGetToken (part_001:25-64): the outcome for given          *)
(* credentials and the answer of the auth endpoint.  Reading                *)
(* credentials.phone throws a TypeError before any request when the         *)
(* credentials are undefined.                                               *)
(***************************************************************************)

AuthenticateOutcome(credentials, authResponse) ==
    IF credentials.t \in {"undef", "null"} THEN Throw("TypeError", <<>>, credentials)
    ELSE IF StrictEq(authResponse.status, Num(200)) /\ Truthy(authResponse.data)
            /\ Truthy(GetProp(authResponse.data, Key.access_token))
    THEN Ok
    ELSE Throw("Authentication failed", <<>>, authResponse.status)

\* this.accessToken after authenticateAndGetToken (part_001:53-58): assigned
\* only on the success branch
\* (variant: a failed authentication forgets the cached token)
TokenAfterForgetting(outcome, authResponse) ==
    IF Raised(outcome) THEN Null ELSE GetProp(authResponse.data, Key.access_token)

TokenAfter(outcome, authResponse) ==
    IF Raised(outcome) THEN accessToken ELSE GetProp(authResponse.data, Key.access_token)

\* this.responses after makeApiRequest (part_001:148-165): the push follows
\* the three validation calls
\* (variant: the response is pushed before it is validated)
RecordedBeforeValidation(outcome, resp) ==
    Append(responses, [status |-> resp.status, data |-> resp.data,
                       duration |-> resp.duration])

Recorded(outcome, resp) ==
    IF Raised(outcome) THEN responses
    ELSE Append(responses, [status |-> resp.status, data |-> resp.data,
                            duration |-> resp.duration])

\* the token makeApiRequest sends (part_001:85-98): getAccessToken calls
\* authenticateAndGetToken() without credentials when no access token is held,
\* which throws, and the configured token is used
\* (variant: the configured token is preferred to the cached access token)
AuthTokenConfiguredFirst(token) ==
    IF Truthy(token) THEN token
    ELSE IF Truthy(apiToken) THEN apiToken
    ELSE accessToken

\* (variant: the error of getAccessToken is not caught by a fallback to the
\* configured token)
AuthTokenWithoutFallback(token) ==
    IF Truthy(token) THEN token ELSE accessToken

AuthToken(token) ==
    IF Truthy(token) THEN token
    ELSE IF Truthy(accessToken) THEN accessToken
    ELSE IF Raised(AuthenticateOutcome(Undefined, NoResponse)) THEN apiToken
    ELSE accessToken

(***************************************************************************)
(* Requests of SpecRequest.  A test data document extends the expectation  *)
(* document with testName, customValidations, validateBalanceConsistency   *)
(* and balanceConfig.  (A difference of exactly 0.01 between the balances  *)
(* depends on binary rounding and is not among the inputs.)                *)
(***************************************************************************)

CustomRule(field, type, expectedLength, expectedValue, expectedType) ==
    [field |-> field, type |-> type, expectedLength |-> expectedLength,
     expectedValue |-> expectedValue, expectedType |-> expectedType]

RequestResponses ==
    [status : {Num(200), Num(500)},
     headers : {[contentType |-> HeaderValue.json, allowOrigin |-> Undefined,
                 contentTypeOptions |-> HeaderValue.nosniff, frameOptions |-> HeaderValue.deny]},
     data : {Obj(<<Prop(Key.c, Arr(<<Num(1)>>)), Prop(Key.amount, Num(5)),
                   Prop(Key.status, PaymentStatus.pending)>>),
             Obj(<<Prop(Key.c, Arr(<<>>)),
                   Prop(Key.amount, Str(<<"1", "0", ".", "5", "0">>))>>),
             Obj(<<Prop(Key.amount, Num(0)),
                   Prop(Key.transactionId, Str(<<"T", "X", "N", "_", "1", "2">>)),
                   Prop(Key.availableBalance, Str(<<"1", "0", ".", "5", "0">>)),
                   Prop(Key.currentBalance, Str(<<"1", "2">>)),
                   Prop(Key.accountId, Num(7))>>),
             Obj(<<Prop(Key.c, Str(<<"a", "b", "c">>)), Prop(Key.amount, Num(5)),
                   Prop(Key.status, Str(<<"o", "k">>))>>),
             Null, Undefined},
     duration : {Num(500)}]

TestData ==
    [expectedStatus : {Num(200)},
     expectedResponseTime : {Undefined},
     expectedBody : {Undefined},
     subsetExpectedBody : {Undefined, Obj(<<Prop(Key.amount, Num(5))>>)},
     nonEmptyFields : {Undefined},
     validateAmounts : {Undefined, Bool(TRUE)},
     amountFields : {StrList(<<Key.amount>>)},
     validateTransactionIds : {Undefined},
     transactionIdFields : {Undefined},
     validateDataMasking : {Undefined},
     sensitiveFields : {Undefined},
     testName : {Undefined, Str(Key.payment)},
     customValidations :
         UNION {[1..n ->
                    {CustomRule(Key.c, "arrayLength", Num(1), Undefined, "undefined"),
                     CustomRule(Key.amount, "greaterThan", Undefined, Num(3), "undefined"),
                     CustomRule(Key.c, "contains", Undefined, Num(1), "undefined"),
                     CustomRule(Key.amount, "dataType", Undefined, Undefined, "number"),
                     CustomRule(Key.amount, "regex", Undefined, Undefined, "undefined")}] :
                n \in 0..MaxRules},
     validateBalanceConsistency : {Undefined, Bool(TRUE)},
     balanceConfig : {(Obj(<<Prop(Key.availableBalancePath, Str(Key.availableBalance)),
                       Prop(Key.currentBalancePath, Str(Key.currentBalance)),
                       Prop(Key.pendingAmountPath, Str(Key.amount))>>))}]

\* a test data document with an expected status and the balance check on or
\* off, without expected bodies, classifiers, test name or custom rules
PlainTestData(expectedStatus, validateBalanceConsistency) ==
    [expectedStatus |-> expectedStatus, expectedResponseTime |-> Undefined,
     expectedBody |-> Undefined, subsetExpectedBody |-> Undefined,
     nonEmptyFields |-> Undefined, validateAmounts |-> Undefined,
     amountFields |-> Undefined, validateTransactionIds |-> Undefined,
     transactionIdFields |-> Undefined, validateDataMasking |-> Undefined,
     sensitiveFields |-> Undefined, testName |-> Undefined,
     customValidations |-> <<>>,
     validateBalanceConsistency |-> validateBalanceConsistency,
     balanceConfig |-> Obj(<<Prop(Key.availableBalancePath, Str(Key.availableBalance)),
                             Prop(Key.currentBalancePath, Str(Key.currentBalance)),
                             Prop(Key.pendingAmountPath, Str(Key.amount))>>)]

(***************************************************************************)
(* SpecRequest: a helper that may authenticate once and then makes one     *)
(* request.                                                                *)
(***************************************************************************)
InitRequest ==
    /\ pc = "constructed"
    /\ response = NoResponse
    /\ expectedData = NoDocument
    /\ actualBody = Undefined
    /\ expectedBody = Undefined
    /\ nonEmptyFields = <<>>
    /\ isSubset = FALSE
    /\ result = NotRun
    /\ Constructed
    /\ args = NoArgs
    /\ apiToken \in {Str(<<>>), Str(<<"K">>)}

\* authenticateAndGetToken(credentials)
AuthenticateAndGetToken ==
    /\ pc = "constructed"
    /\ \E credentials \in {Undefined, Obj(<<Prop(<<"o", "t", "p">>, Str(<<"1">>))>>)},
          authResponse \in
              {[status |-> Num(200), data |-> Obj(<<Prop(Key.access_token, Str(<<"J">>))>>)],
               [status |-> Num(200), data |-> Obj(<<>>)],
               [status |-> Num(401), data |-> Obj(<<Prop(Key.access_token, Str(<<"J">>))>>)]} :
          LET outcome == AuthenticateOutcome(credentials, authResponse)
          IN  /\ result' = outcome
              /\ requests' = IF credentials.t = "undef" THEN requests
                             ELSE Append(requests, [kind |-> "auth", authorization |-> Undefined])
              /\ accessToken' = TokenAfter(outcome, authResponse)
              /\ args' = [NoArgs EXCEPT !.credentials = credentials,
                                        !.answer = authResponse]
    /\ pc' = "authenticated"
    /\ UNCHANGED <<actualBody, expectedBody, isSubset, nonEmptyFields, response,
                   expectedData, responses, storedTestData, apiToken>>

\* the outcome of lines 149-155 for the response received
RequestOutcome(resp, testData) ==
    Then(ValidateApiResponse(resp, testData),
    Then(Pass("storeTestData"),
         PerformAdditionalValidations(resp, testData)))

\* makeApiRequest(testData, token), the endpoint answering with resp
MakeApiRequest ==
    /\ pc \in {"constructed", "authenticated"}
    /\ \E testData \in TestData, resp \in RequestResponses,
          token \in {Null, Str(<<>>), Str(<<"T">>), Str(Key.bearer \o <<"T">>)} :
          LET outcome == RequestOutcome(resp, testData)
          IN  /\ requests' = Append(requests,
                     [kind |-> "api", authorization |-> Authorization(AuthToken(token))])
              /\ response' = resp
              /\ expectedData' = testData
              /\ args' = [args EXCEPT !.token = token]
              /\ result' = outcome
              /\ storedTestData' =
                     IF Raised(ValidateApiResponse(resp, testData)) THEN storedTestData
                     ELSE StoreTestData(storedTestData, resp.data)
              /\ responses' = Recorded(outcome, resp)
    /\ pc' = "done"
    /\ UNCHANGED <<actualBody, expectedBody, isSubset, nonEmptyFields, accessToken, apiToken>>

NextRequest == AuthenticateAndGetToken \/ MakeApiRequest

SpecRequest == InitRequest /\ [][NextRequest]_vars

(***************************************************************************)
(* SpecSession: a helper on which at most MaxCalls calls are made, in any  *)
(* order: authenticateAndGetToken(credentials) as one of two users,        *)
(* makeApiRequest(testData, token), clearResponses() and                   *)
(* clearStoredTestData().  An endpoint that does not answer (axios         *)
(* rejects) is the answer NoResponse.  args.history records the calls:     *)
(* op, whether it raised, whether storeTestData ran, the answer received   *)
(* and the explicit token (none: the requests rely on the cached token).   *)
(***************************************************************************)
InitSession ==
    /\ pc = "constructed"
    /\ args = [history |-> <<>>]
    /\ response = NoResponse
    /\ expectedData = NoDocument
    /\ actualBody = Undefined
    /\ expectedBody = Undefined
    /\ nonEmptyFields = <<>>
    /\ isSubset = FALSE
    /\ result = NotRun
    /\ Constructed
    /\ apiToken = Str(<<"K">>)

SessionAuthenticate ==
    /\ Len(args.history) < MaxCalls
    /\ \E user \in {<<"A">>, <<"B">>} :
       \E authResponse \in
              {[status |-> Num(200), data |-> Obj(<<Prop(Key.access_token, Str(user))>>)],
               [status |-> Num(200), data |-> Obj(<<>>)],
               [status |-> Num(401), data |-> Obj(<<Prop(Key.access_token, Str(user))>>)],
               [status |-> Undefined, data |-> Undefined]} :
          LET credentials == Obj(<<Prop(<<"p", "h", "o", "n", "e">>, Str(user))>>)
              outcome == IF authResponse.status = Undefined
                         THEN Throw("Network Error", <<>>, Undefined)
                         ELSE AuthenticateOutcome(credentials, authResponse)
          IN  /\ result' = outcome
              /\ requests' = Append(requests, [kind |-> "auth", authorization |-> Undefined])
              /\ accessToken' = TokenAfter(outcome, authResponse)
              /\ args' = [history |-> Append(args.history,
                             [op |-> "authenticateAndGetToken", raised |-> Raised(outcome),
                              stored |-> FALSE, resp |-> authResponse, doc |-> NoDocument,
                              token |-> Str(user)])]
    /\ pc' = "authenticateAndGetToken"
    /\ UNCHANGED <<actualBody, expectedBody, isSubset, nonEmptyFields, response,
                   expectedData, responses, storedTestData, apiToken>>

SessionRequest ==
    /\ Len(args.history) < MaxCalls
    /\ \E testData \in
              {PlainTestData(Num(200), consistency) :
                  consistency \in {Undefined, Bool(TRUE)}},
          token \in {Null},
          resp \in {NoResponse} \cup
                   [status : {Num(200)},
                    headers : {[contentType |-> HeaderValue.json, allowOrigin |-> Undefined,
                                contentTypeOptions |-> HeaderValue.nosniff,
                                frameOptions |-> HeaderValue.deny]},
                    data : {Obj(<<Prop(Key.amount, Num(0)),
                                  Prop(Key.transactionId, Str(<<"T", "X", "N", "_", "1", "2">>)),
                                  Prop(Key.availableBalance, Str(<<"1", "0", ".", "5", "0">>)),
                                  Prop(Key.currentBalance, Str(<<"1", "2">>)),
                                  Prop(Key.accountId, Num(7))>>),
                            Obj(<<Prop(Key.transactionId, Str(<<"T", "X", "N", "_", "9", "9">>)),
                                  Prop(Key.availableBalance, Num(0)),
                                  Prop(Key.currentBalance, Num(0))>>),
                            Null},
                    duration : {Num(500)}] \cup
                   {[NoResponse EXCEPT !.status = Num(500),
                                       !.data = Obj(<<Prop(Key.accountId, Num(8))>>)]} :
          LET rejected == resp = NoResponse
              outcome == IF rejected THEN Throw("Network Error", <<>>, Undefined)
                         ELSE RequestOutcome(resp, testData)
              validated == ~rejected /\ ~Raised(ValidateApiResponse(resp, testData))
          IN  /\ requests' = Append(requests,
                     [kind |-> "api", authorization |-> Authorization(AuthToken(token))])
              /\ response' = resp
              /\ expectedData' = testData
              /\ result' = outcome
              /\ storedTestData' =
                     IF validated THEN StoreTestData(storedTestData, resp.data)
                     ELSE storedTestData
              /\ responses' = Recorded(outcome, resp)
              /\ args' = [history |-> Append(args.history,
                             [op |-> "makeApiRequest", raised |-> Raised(outcome),
                              stored |-> validated, resp |-> resp, doc |-> testData,
                              token |-> token])]
    /\ pc' = "makeApiRequest"
    /\ UNCHANGED <<actualBody, expectedBody, isSubset, nonEmptyFields, accessToken, apiToken>>

\* this.responses = []
ClearResponses ==
    /\ Len(args.history) < MaxCalls
    /\ responses' = <<>>
    /\ args' = [history |-> Append(args.history,
                   [op |-> "clearResponses", raised |-> FALSE, stored |-> FALSE,
                    resp |-> NoResponse, doc |-> NoDocument, token |-> Null])]
    /\ pc' = "clearResponses"
    /\ UNCHANGED <<actualBody, expectedBody, isSubset, nonEmptyFields, response,
                   expectedData, result, storedTestData, accessToken, apiToken, requests>>

\* this.storedTestData = {}
ClearStoredTestData ==
    /\ Len(args.history) < MaxCalls
    /\ storedTestData' = NoStoredTestData
    /\ args' = [history |-> Append(args.history,
                   [op |-> "clearStoredTestData", raised |-> FALSE, stored |-> FALSE,
                    resp |-> NoResponse, doc |-> NoDocument, token |-> Null])]
    /\ pc' = "clearStoredTestData"
    /\ UNCHANGED <<actualBody, expectedBody, isSubset, nonEmptyFields, response,
                   expectedData, result, responses, accessToken, apiToken, requests>>

NextSession ==
    \/ SessionAuthenticate
    \/ SessionRequest
    \/ ClearResponses
    \/ ClearStoredTestData

SpecSession == InitSession /\ [][NextSession]_vars

(***************************************************************************)
(* SpecFields: one call of a field validator on the response body          *)
(* {a: v, b: w} (a is absent when v is undefined): validateNonEmptyFields, *)
(* validateMonetaryAmounts or validateTransactionIds with a list of at     *)
(* most MaxFields paths, executeCustomValidation with one rule, or         *)
(* validatePaymentStatusTransition with a current and a previous status.   *)
(***************************************************************************)

InitFields ==
    /\ pc = "ready"
    /\ \E v \in
        ({Null, NaN, Num(0), Num(2), Num(3), Num(5), Num(-5), Bool(FALSE), Bool(TRUE),
          Str(<<>>), Str(<<" ">>), Str(<<"x">>), Str(<<"a", "b", "c">>), Str(<<"9">>),
          Str(<<"1", "0">>), Str(<<"-", "5">>), Arr(<<>>), Arr(<<Num(1)>>), Obj(<<>>),
          Obj(<<Prop(Key.a, Num(1))>>), Num(AmountBound), Num(AmountBound + 1),
          Num(-AmountBound), Num(-AmountBound - 1), Dec(1, AmountBound, 10),
          Str(<<"1", "0", "0", "0", "0", "0", "0", "0", "0", "0">>),
          Str(<<"1", "0", "0", "0", "0", "0", "0", "0", "0", "1", ".", "0", "0">>),
          Str(<<"9", "9", "9", "9", "9", "9", "9", "9", "9", ".", "9", "9">>),
          Str(<<"-", "1", "0", "0", "0", "0", "0", "0", "0", "0", "0">>),
          Str(<<"-", "1", "0", "0", "0", "0", "0", "0", "0", "0", "0", ".", "0", "1">>),
          Str(<<"I", "n", "f", "i", "n", "i", "t", "y">>),
          Str(<<"-", "I", "n", "f", "i", "n", "i", "t", "y">>),
          Str(<<"T", "X", "N", "_", "1">>), Str(<<"T", "X", "N", "_", "1", "2">>),
          Str(<<"T", "#", "1", "2", "3", "4">>),
          Str(<<"T", "X", "N", "_", "1", "2", "3", "4", "5">>),
          Str(<<"T", "X", "N", "_", "1", "2", "3", "4", "5", "6">>), Num(123456),
          Undefined}),
          w \in {Str(<<"1", "2", "3", "4", "5", "6">>), Null, Str(<<>>)} :
          actualBody = Obj((IF v.t = "undef" THEN <<>> ELSE <<Prop(Key.a, v)>>)
                           \o <<Prop(Key.b, w)>>)
    /\ nonEmptyFields \in SeqsUpTo({Key.a, Key.b}, MaxFields)
    /\ \E e \in {Num(3), Str(<<"9">>)} :
          args = [NoArgs EXCEPT !.validation =
                     CustomRule(Key.a, "greaterThan", Undefined, e, "undefined")]
    /\ expectedBody = Undefined
    /\ isSubset = FALSE
    /\ response = NoResponse
    /\ expectedData = NoDocument
    /\ result = NotRun
    /\ Constructed
    /\ apiToken = Str(<<>>)

CallValidateNonEmptyFields ==
    /\ pc = "ready"
    /\ result' = ValidateNonEmptyFields(actualBody, StrList(nonEmptyFields))
    /\ pc' = "validateNonEmptyFields"
    /\ UNCHANGED <<actualBody, expectedBody, isSubset, nonEmptyFields, response, expectedData,
                   responses, storedTestData, accessToken, apiToken, requests, args>>

CallValidateMonetaryAmounts ==
    /\ pc = "ready"
    /\ result' = ValidateMonetaryAmounts(actualBody, StrList(nonEmptyFields))
    /\ pc' = "validateMonetaryAmounts"
    /\ UNCHANGED <<actualBody, expectedBody, isSubset, nonEmptyFields, response, expectedData,
                   responses, storedTestData, accessToken, apiToken, requests, args>>

CallValidateTransactionIds ==
    /\ pc = "ready"
    /\ result' = ValidateTransactionIds(actualBody, StrList(nonEmptyFields))
    /\ pc' = "validateTransactionIds"
    /\ UNCHANGED <<actualBody, expectedBody, isSubset, nonEmptyFields, response, expectedData,
                   responses, storedTestData, accessToken, apiToken, requests, args>>

CallExecuteCustomValidation ==
    /\ pc = "ready"
    /\ result' = ExecuteCustomValidation(actualBody, args.validation)
    /\ pc' = "executeCustomValidation"
    /\ UNCHANGED <<actualBody, expectedBody, isSubset, nonEmptyFields, response, expectedData,
                   responses, storedTestData, accessToken, apiToken, requests, args>>

\* validatePaymentStatusTransition(currentStatus, previousStatus)
CallValidatePaymentStatusTransition ==
    /\ pc = "ready"
    /\ \E currentStatus \in ValidStatuses \cup {Str(<<"o", "k">>), Undefined, Num(1)},
          previousStatus \in ValidStatuses \cup {Str(<<"o", "k">>), Undefined, Str(<<>>)} :
          /\ result' = ValidatePaymentStatusTransition(currentStatus, previousStatus)
          /\ args' = [args EXCEPT !.currentStatus = currentStatus,
                                  !.previousStatus = previousStatus]
    /\ pc' = "validatePaymentStatusTransition"
    /\ UNCHANGED <<actualBody, expectedBody, isSubset, nonEmptyFields, response, expectedData,
                   responses, storedTestData, accessToken, apiToken, requests>>

NextFields ==
    \/ CallValidateNonEmptyFields
    \/ CallValidateMonetaryAmounts
    \/ CallValidateTransactionIds
    \/ CallExecuteCustomValidation
    \/ CallValidatePaymentStatusTransition

SpecFields == InitFields /\ [][NextFields]_vars

(***************************************************************************)
(* SpecRetry: TestUtilities.retry(fn, maxRetries, delay) (part_000:147-156) *)
(* with fn an operation that returns a value or throws at each call.  args  *)
(* holds the arguments, the loop index i, the outcomes of the calls of fn,  *)
(* the sleeps made (ms) and the value returned.                             *)
(***************************************************************************)
InitRetry ==
    /\ pc = "loop"
    /\ \E maxRetries \in 0..MaxRetries, delay \in {0, 100, 1000} :
          args = [maxRetries |-> maxRetries, delay |-> delay, i |-> 0,
                  calls |-> <<>>, sleeps |-> <<>>, returned |-> Undefined]
    /\ result = NotRun
    /\ actualBody = Undefined
    /\ expectedBody = Undefined
    /\ nonEmptyFields = <<>>
    /\ isSubset = FALSE
    /\ response = NoResponse
    /\ expectedData = NoDocument
    /\ Constructed
    /\ apiToken = Str(<<>>)

\* i < maxRetries: return await fn(), fn returning value
RetryAttemptReturns ==
    /\ pc = "loop"
    /\ args.i < args.maxRetries
    /\ \E value \in {Num(0), Str(<<"x">>)} :
          /\ args' = [args EXCEPT !.calls = Append(@, [threw |-> FALSE, value |-> value]),
                                  !.returned = value]
          /\ result' = Ok
    /\ pc' = "returned"
    /\ UNCHANGED <<actualBody, expectedBody, isSubset, nonEmptyFields, response, expectedData,
                   responses, storedTestData, accessToken, apiToken, requests>>

\* i < maxRetries: fn throws error; rethrown when i === maxRetries - 1,
\* otherwise the sleep follows
RetryAttemptThrows ==
    /\ pc = "loop"
    /\ args.i < args.maxRetries
    /\ \E error \in {"E1", "E2"} :
          /\ args' = [args EXCEPT !.calls = Append(@, [threw |-> TRUE, value |-> Str(<<error>>)])]
          /\ IF args.i = args.maxRetries - 1
             THEN /\ result' = Throw(error, <<>>, Undefined)
                  /\ pc' = "thrown"
             ELSE /\ result' = result
                  /\ pc' = "sleep"
    /\ UNCHANGED <<actualBody, expectedBody, isSubset, nonEmptyFields, response, expectedData,
                   responses, storedTestData, accessToken, apiToken, requests>>

\* await this.sleep(delay * Math.pow(2, i)); i++
RetrySleep ==
    /\ pc = "sleep"
    /\ args' = [args EXCEPT !.sleeps = Append(@, args.delay * 2^(args.i)),
                            !.i = @ + 1]
    /\ pc' = "loop"
    /\ UNCHANGED result
    /\ UNCHANGED <<actualBody, expectedBody, isSubset, nonEmptyFields, response, expectedData,
                   responses, storedTestData, accessToken, apiToken, requests>>

\* the loop condition fails: the function ends without a return statement
RetryLoopEnds ==
    /\ pc = "loop"
    /\ ~(args.i < args.maxRetries)
    /\ result' = Ok
    /\ pc' = "returned"
    /\ UNCHANGED args
    /\ UNCHANGED <<actualBody, expectedBody, isSubset, nonEmptyFields, response, expectedData,
                   responses, storedTestData, accessToken, apiToken, requests>>

NextRetry == RetryAttemptReturns \/ RetryAttemptThrows \/ RetrySleep \/ RetryLoopEnds

SpecRetry == InitRetry /\ [][NextRetry]_vars

(***************************************************************************)
(* SpecRateLimit: executeRateLimitTest(testData) (part_001:648-664), each   *)
(* iteration one makeApiRequest(testData, null) answered by the endpoint.   *)
(* args holds requestCount and expectedLimitStatus of the test data, the    *)
(* loop index i, limitReached, the answers received and the warning made.   *)
(* makeApiRequest returns response.data, which the loop names response.     *)
(***************************************************************************)
InitRateLimit ==
    /\ pc = "loop"
    /\ \E requestCount \in 0..MaxRequests, expectedStatus \in {Undefined, Num(200)} :
          /\ args = [requestCount |-> requestCount, expectedLimitStatus |-> Num(429),
                     i |-> 0, limitReached |-> FALSE, answers |-> <<>>, warned |-> FALSE]
          /\ expectedData = PlainTestData(expectedStatus, Undefined)
    /\ response = NoResponse
    /\ result = NotRun
    /\ actualBody = Undefined
    /\ expectedBody = Undefined
    /\ nonEmptyFields = <<>>
    /\ isSubset = FALSE
    /\ Constructed
    /\ apiToken = Str(<<"K">>)

\* i < requestCount: const response = await this.makeApiRequest(testData, token);
\* if (response.status === expectedLimitStatus) { limitReached = true; break; }
RateLimitRequest ==
    /\ pc = "loop"
    /\ args.i < args.requestCount
    /\ \E resp \in [status : {Num(200), Num(429)},
                    headers : {[contentType |-> HeaderValue.json, allowOrigin |-> Undefined,
                                contentTypeOptions |-> HeaderValue.nosniff,
                                frameOptions |-> HeaderValue.deny]},
                    data : {Obj(<<Prop(Key.status, Num(429))>>),
                            Obj(<<Prop(Key.status, Str(<<"o", "k">>))>>),
                            Obj(<<Prop(Key.a, Num(1))>>), Null},
                    duration : {Num(500)}] :
          \E outcome \in {RequestOutcome(resp, expectedData)} :
          \E typeError \in {~Raised(outcome) /\ resp.data.t \in {"null", "undef"}} :
          \E limit \in {/\ ~Raised(outcome) /\ ~typeError
                        /\ StrictEq(GetProp(resp.data, Key.status),
                                    args.expectedLimitStatus)} :
              /\ requests' = Append(requests,
                     [kind |-> "api", authorization |-> Authorization(AuthToken(Null))])
              /\ response' = resp
              /\ storedTestData' =
                     IF Raised(ValidateApiResponse(resp, expectedData)) THEN storedTestData
                     ELSE StoreTestData(storedTestData, resp.data)
              /\ responses' = Recorded(outcome, resp)
              /\ result' = IF typeError THEN Throw("TypeError", Key.status, resp.data)
                           ELSE outcome
              /\ args' = [args EXCEPT !.answers = Append(@, resp),
                                      !.limitReached = limit,
                                      !.i = IF Raised(outcome) \/ typeError \/ limit
                                            THEN @ ELSE @ + 1]
              /\ pc' = IF Raised(outcome) \/ typeError THEN "thrown"
                       ELSE IF limit THEN "done" ELSE "loop"
    /\ UNCHANGED <<actualBody, expectedBody, isSubset, nonEmptyFields, expectedData,
                   accessToken, apiToken>>

\* the loop condition fails: if (!limitReached) console.warn(...)
RateLimitEnds ==
    /\ pc = "loop"
    /\ ~(args.i < args.requestCount)
    /\ args' = [args EXCEPT !.warned = ~args.limitReached]
    /\ pc' = "done"
    /\ UNCHANGED <<actualBody, expectedBody, isSubset, nonEmptyFields, response,
                   expectedData, result, responses, storedTestData, accessToken, apiToken,
                   requests>>

NextRateLimit == RateLimitRequest \/ RateLimitEnds

SpecRateLimit == InitRateLimit /\ [][NextRateLimit]_vars

(***************************************************************************)
(* Properties of validateResponseBody, checked under SpecSelf (C1) and     *)
(* SpecBody.                                                               *)
(***************************************************************************)
Done == pc = "done"
Min(S) == MinOf(S)
Kind(v) == IF v.t = "arr" THEN "array" ELSE IF v.t = "obj" THEN "object" ELSE "primitive"
IsContainer(v) == v.t \in {"arr", "obj"}
KeySet(v) == {ObjectKeys(v)[i] : i \in 1..Len(ObjectKeys(v))}
BodyResult(actual, expected) ==
    ValidateResponseBody(actual, expected, isSubset, nonEmptyFields, <<>>)

\* every array of v repeats its first element
RECURSIVE UniformArrays(_)
UniformArrays(v) ==
    /\ v.t = "arr" => \A i \in 1..Len(v.c) : v.c[i].v = v.c[1].v
    /\ IsContainer(v) => \A i \in 1..Len(v.c) : UniformArrays(v.c[i].v)

\* C1 as stated: validating any JSON value against itself in exact mode with
\* no nonEmptyFields never raises.
C1_SelfValidationNeverRaises ==
    (Done /\ actualBody = expectedBody /\ ~isSubset /\ nonEmptyFields = <<>>)
        => ~Raised(result)

\* C1 amended: validating a JSON value against itself in exact mode with no
\* nonEmptyFields never raises when every array in the value repeats its
\* first element (arrays are judged against their first element only).
C1_UniformSelfValidationNeverRaises ==
    (Done /\ actualBody = expectedBody /\ ~isSubset /\ nonEmptyFields = <<>>
          /\ UniformArrays(actualBody))
        => ~Raised(result)

C1_Witness ==
    /\ Done /\ actualBody = expectedBody /\ ~isSubset /\ nonEmptyFields = <<>>
    /\ actualBody.t = "obj" /\ Len(actualBody.c) = 2
    /\ actualBody.c[1].v.t = "arr" /\ Len(actualBody.c[1].v.c) = 2
    /\ actualBody.c[1].v.c[1].v.t = "obj"
    /\ UniformArrays(actualBody)
    /\ ~Raised(result)

\* The state of C4: the first expected key holds an array whose first element
\* is an object, and the actual body holds an array under that key.
C4_Case ==
    /\ Done
    /\ expectedBody.t = "obj" /\ Len(expectedBody.c) >= 1
    /\ expectedBody.c[1].v.t = "arr" /\ Len(expectedBody.c[1].v.c) >= 1
    /\ expectedBody.c[1].v.c[1].v.t = "obj"
    /\ actualBody.t = "obj" /\ HasOwnProperty(actualBody, expectedBody.c[1].k)
    /\ GetProp(actualBody, expectedBody.c[1].k).t = "arr"

\* C4: every element of the actual array is validated, in index order and
\* with path key[index], against the first element T of the expected array;
\* the outcome is that of the first failing element (else of the remaining
\* keys), and it is the same as with the expected array [T]: no other
\* expected element and no length is used.
C4_ArrayTemplate ==
    C4_Case =>
        LET k == expectedBody.c[1].k
            T == expectedBody.c[1].v.c[1].v
            items == GetProp(actualBody, k).c
            ItemResult(j) == ValidateResponseBody(items[j].v, T, isSubset, nonEmptyFields,
                                                  ItemPath(k, j - 1))
            fails == {j \in 1..Len(items) : Raised(ItemResult(j))}
            visited == IF fails = {} THEN 1..Len(items) ELSE 1..Min(fails)
            onlyT == Obj(<<Prop(k, Arr(<<T>>))>> \o Tail(expectedBody.c))
        IN  /\ fails # {} => result.err = ItemResult(Min(fails)).err
            /\ fails = {} => result.err = BodyResult(actualBody, Obj(Tail(expectedBody.c))).err
            /\ \A j \in 1..Len(items) : j \in visited <=> InSeq(ItemPath(k, j - 1), result.log)
            /\ result.err = BodyResult(actualBody, onlyT).err

C4_Witness ==
    /\ C4_Case
    /\ Len(expectedBody.c[1].v.c) = 2
    /\ expectedBody.c[1].v.c[2].v # expectedBody.c[1].v.c[1].v
    /\ Len(GetProp(actualBody, expectedBody.c[1].k).c) = 1
    /\ ~Raised(result)

\* C5: the error raised is the one of the first expected key, in declared
\* order, whose own check fails; the walk stops there (the last field path
\* visited is the one where the error was thrown), and the array-template
\* scenario fails with the value mismatch on id of item 0.
C5_FirstViolationOnly ==
    (Done /\ Kind(expectedBody) = "object") =>
        LET KeyResult(i) == BodyResult(actualBody, Obj(<<expectedBody.c[i]>>))
            fails == {i \in 1..Len(expectedBody.c) : Raised(KeyResult(i))}
        IN  /\ fails = {} => ~Raised(result)
            /\ fails # {} => result.err = KeyResult(Min(fails)).err
            /\ Raised(result) => result.log[Len(result.log)] = result.err.at
            /\ (actualBody = ScenarioActual /\ expectedBody = ScenarioExpected) =>
                   result.err = Err("Value mismatch", Key.id,
                                    Key.items \o <<"[", "0", "]", ".">> \o Key.id, 0,
                                    Str(<<"x">>), Str(<<"a">>))

C5_Witness ==
    /\ Done /\ actualBody = ScenarioActual /\ expectedBody = ScenarioExpected
    /\ result.err.kind = "Value mismatch"
    /\ Len(result.log) = 3

\* C6 as stated: an actual value that lacks own property k (null, undefined
\* and primitives included) fails with "Missing property: k", in both modes.
C6_MissingPropertyError ==
    (/\ Done
     /\ IsContainer(expectedBody) /\ Len(expectedBody.c) >= 1
     /\ \/ actualBody.t \in {"null", "undef"}
        \/ ~HasOwnProperty(actualBody, ObjectKeys(expectedBody)[1]))
        => /\ result.err.kind = "Missing property"
           /\ result.err.key = ObjectKeys(expectedBody)[1]

\* actual without the properties that expected does not name, at every depth
\* the walk reaches
RECURSIVE Strip(_, _)
StripValue(v, e) ==
    IF e.t = "arr" /\ v.t = "arr" /\ Len(e.c) > 0 /\ e.c[1].v.t = "obj"
    THEN Arr([i \in 1..Len(v.c) |-> Strip(v.c[i].v, e.c[1].v)])
    ELSE IF e.t = "obj" THEN Strip(v, e)
    ELSE v
Strip(actual, expected) ==
    IF actual.t = "obj" /\ expected.t = "obj"
    THEN LET kept == SelectSeq(actual.c, LAMBDA p : p.k \in KeySet(expected))
         IN  Obj([i \in 1..Len(kept) |->
                    Prop(kept[i].k, StripValue(kept[i].v, GetProp(expected, kept[i].k)))])
    ELSE actual

\* the actual body has every expected key with the expected value, and more
C7_Case ==
    /\ Done
    /\ actualBody.t = "obj" /\ expectedBody.t = "obj"
    /\ KeySet(expectedBody) \subseteq KeySet(actualBody)
    /\ KeySet(expectedBody) # KeySet(actualBody)
    /\ \A k \in KeySet(expectedBody) : GetProp(actualBody, k) = GetProp(expectedBody, k)

\* C7 as stated: a strict superset that agrees on the expected keys never
\* raises, in either mode.
C7_SupersetNeverRaises == C7_Case => ~Raised(result)

\* C7 amended: a strict superset that agrees on the expected keys raises
\* exactly when the expected body raises against itself; and, at any depth,
\* the error is the one raised for the actual body without its extra keys.
C7_ExtraKeysNeverFatal ==
    /\ C7_Case => (Raised(result) <=> Raised(BodyResult(expectedBody, expectedBody)))
    /\ (Done /\ actualBody.t = "obj" /\ expectedBody.t = "obj")
           => result.err = BodyResult(Strip(actualBody, expectedBody), expectedBody).err

C7_Witness ==
    /\ C7_Case /\ ~isSubset /\ ~Raised(result)
    /\ Len(result.warns) >= 1
    /\ Len(expectedBody.c) >= 1
    /\ expectedBody.c[1].v.t = "arr" /\ Len(expectedBody.c[1].v.c) = 2

\* C8 as stated: an actual value whose container kind (array, object,
\* primitive) differs from the expected value's makes the call raise.
C8_ContainerKindMismatchRaises ==
    (/\ Done /\ nonEmptyFields = <<>>
     /\ expectedBody.t = "obj" /\ Len(expectedBody.c) >= 1
     /\ actualBody.t = "obj" /\ HasOwnProperty(actualBody, expectedBody.c[1].k)
     /\ Kind(GetProp(actualBody, expectedBody.c[1].k)) # Kind(expectedBody.c[1].v))
        => Raised(result)

(***************************************************************************)
(* Properties of validateApiResponse, checked under SpecApi.               *)
(***************************************************************************)
PassNames ==
    <<"status", "responseTime", "securityHeaders", "expectedBody", "subsetExpectedBody",
      "nonEmptyFields", "amounts", "transactionIds", "masking">>

\* the outcome of each pass run on its own, in the order of the claim
PassOutcomes(resp, doc) ==
    <<StatusPass(resp, doc), ResponseTimePass(resp, doc), SecurityHeadersPass(resp, doc),
      ExactBodyPass(resp, doc), SubsetBodyPass(resp, doc), NonEmptyPass(resp, doc),
      AmountsPass(resp, doc), TransactionIdsPass(resp, doc), MaskingPass(resp, doc)>>

StructuralKinds ==
    {"TypeError", "Missing property", "should be an array", "should be an object",
     "Array item type mismatch", "Value mismatch", "Null/undefined mismatch"}

\* the positions of the pass names in a log
PassTrace(log) ==
    LET marks == SelectSeq(log, LAMBDA e : \E i \in 1..Len(PassNames) : e = <<PassNames[i]>>)
    IN  [j \in 1..Len(marks) |-> CHOOSE i \in 1..Len(PassNames) : marks[j] = <<PassNames[i]>>]

\* C2: the passes run in the fixed order; the error raised is the one of
\* the earliest pass that fails on its own and no later pass runs; a status
\* mismatch pre-empts every other error and a structural failure pre-empts
\* the non-empty and classifier failures.
C2_PassOrder ==
    Done =>
        LET P == PassOutcomes(response, expectedData)
            fails == {i \in 1..Len(P) : Raised(P[i])}
            trace == PassTrace(result.log)
        IN  /\ \A j \in 1..(Len(trace) - 1) : trace[j] < trace[j + 1]
            /\ fails = {} => ~Raised(result)
            /\ fails # {} =>
                   /\ result.err = P[Min(fails)].err
                   /\ \A j \in 1..Len(trace) : trace[j] <= Min(fails)
            /\ (Truthy(expectedData.expectedStatus)
                    /\ response.status # expectedData.expectedStatus)
                   => result.err.kind = "Status mismatch"
            /\ (1 \notin fails /\ (4 \in fails \/ 5 \in fails))
                   => result.err.kind \in StructuralKinds

C2_Witness ==
    /\ Done
    /\ LET P == PassOutcomes(response, expectedData)
       IN  /\ ~Raised(P[1]) /\ Raised(P[4]) /\ Raised(P[6]) /\ Raised(P[7]) /\ Raised(P[8])
           /\ P[4].err.kind = "Value mismatch"
    /\ result.err.kind = "Value mismatch"
    /\ PassTrace(result.log) = <<1, 2, 3, 4>>

\* every location of a value with its generated field path
RECURSIVE Located(_, _)
Located(v, path) ==
    {[path |-> path, val |-> v]}
    \cup (IF v.t = "obj"
          THEN UNION {Located(v.c[i].v, FieldPath(path, v.c[i].k)) : i \in 1..Len(v.c)}
          ELSE IF v.t = "arr"
          THEN UNION {Located(v.c[i].v, ItemPath(path, i - 1)) : i \in 1..Len(v.c)}
          ELSE {})

\* the value at a generated field path, undefined when there is none
ValueAtPath(v, p) ==
    IF \E x \in Located(v, <<>>) : x.path = p /\ p # <<>>
    THEN (CHOOSE x \in Located(v, <<>>) : x.path = p).val
    ELSE Undefined

IsPrimitive(v) == v.t \in {"null", "bool", "num", "str"}
IsEmptyValue(v) ==
    \/ v.t \in {"undef", "null"}
    \/ v.t = "str" /\ \A i \in 1..Len(v.s) : v.s[i] \in WhiteSpace
    \/ v.t \in {"arr", "obj"} /\ Len(v.c) = 0

NonEmptyKinds ==
    {"should exist", "should not be null", "String should not be empty",
     "Array should not be empty", "Object should not be empty", "Number should not be NaN"}

RECURSIVE Conforms(_, _)
Conforms(actual, expected) ==
    CASE expected.t = "obj" ->
           /\ actual.t = "obj"
           /\ \A i \in 1..Len(expected.c) :
                  /\ expected.c[i].k \in KeySet(actual)
                  /\ Conforms(GetProp(actual, expected.c[i].k), expected.c[i].v)
      [] expected.t = "arr" ->
           /\ actual.t = "arr"
           /\ Len(expected.c) > 0 =>
                  \A i \in 1..Len(actual.c) :
                      IF expected.c[1].v.t \in {"obj", "arr"}
                      THEN Conforms(actual.c[i].v, expected.c[1].v)
                      ELSE TypeOf(actual.c[i].v) = TypeOf(expected.c[1].v)
      [] OTHER -> actual = expected

\* a decimal amount: digits with an optional point and decimals, as a string
\* or a number, of magnitude at most 1,000,000,000
IsPlainAmount(v) ==
    \/ v.t = "num" /\ (v.n < AmountBound \/ (v.n = AmountBound /\ v.f = 0))
    \/ /\ v.t = "str"
       /\ \E d \in 1..Len(v.s) :
              /\ \A i \in 1..d : v.s[i] \in DigitChars
              /\ d <= 9
              /\ d < Len(v.s) => /\ v.s[d + 1] = "." /\ d + 1 < Len(v.s)
                                 /\ \A i \in (d + 2)..Len(v.s) : v.s[i] \in DigitChars

IsPlainTransactionId(v) ==
    v.t = "str" /\ Len(v.s) >= 6 /\ \A i \in 1..Len(v.s) : v.s[i] \in IdChars

ListedPaths(flag, list) == IF Truthy(flag) THEN {list.c[i].v.s : i \in 1..Len(list.c)} ELSE {}

\* the response deviates from the document in advisory ways at most
NoFatalDeviation(resp, doc) ==
    /\ Truthy(doc.expectedStatus) => resp.status = doc.expectedStatus
    /\ Truthy(doc.expectedBody) => Conforms(resp.data, doc.expectedBody)
    /\ Truthy(doc.subsetExpectedBody) => Conforms(resp.data, doc.subsetExpectedBody)
    /\ \A p \in ListedPaths(doc.nonEmptyFields, doc.nonEmptyFields) :
           /\ \A i \in 1..Len(p) : p[i] # "["
           /\ ~IsEmptyValue(ValueAtPath(resp.data, p))
    /\ \A p \in ListedPaths(doc.validateAmounts, doc.amountFields) :
           ValueAtPath(resp.data, p).t = "undef" \/ IsPlainAmount(ValueAtPath(resp.data, p))
    /\ \A p \in ListedPaths(doc.validateTransactionIds, doc.transactionIdFields) :
           ValueAtPath(resp.data, p).t = "undef"
               \/ IsPlainTransactionId(ValueAtPath(resp.data, p))

\* C10: a response that deviates in advisory ways only (extra properties,
\* slow or unknown duration, missing or insecure headers, unmasked sensitive
\* strings, amounts with more than 2 decimals) is validated without an error.
C10_AdvisoryNeverRaises ==
    (Done /\ NoFatalDeviation(response, expectedData)) => ~Raised(result)

WarningKinds(o) == {o.warns[i].kind : i \in 1..Len(o.warns)}

C10_Witness ==
    /\ Done /\ NoFatalDeviation(response, expectedData) /\ ~Raised(result)
    /\ {"Extra properties", "Response time exceeded", "Content-Type header missing",
        "Access-Control-Allow-Origin should not be *", "should be masked",
        "More than 2 decimal places"} \subseteq WarningKinds(result)

(***************************************************************************)
(* Properties of makeApiRequest, checked under SpecRequest.                *)
(***************************************************************************)
\* the positions of the rules that the response body violates
FailingRules ==
    {i \in 1..Len(expectedData.customValidations) :
        Raised(ExecuteCustomValidation(response.data, expectedData.customValidations[i]))}

\* the rules evaluated by an outcome, in the order of their evaluation
RECURSIVE RulesOf(_)
RulesOf(log) ==
    IF log = <<>> THEN <<>>
    ELSE (IF Len(log[1]) = 2 /\ log[1][1] = "customValidation" THEN <<log[1][2]>> ELSE <<>>)
         \o RulesOf(Tail(log))

\* the log of an outcome up to the first rule
RECURSIVE BeforeRules(_)
BeforeRules(log) ==
    IF log = <<>> \/ (Len(log[1]) = 2 /\ log[1][1] = "customValidation") THEN <<>>
    ELSE <<log[1]>> \o BeforeRules(Tail(log))

FirstRules(n) == [i \in 1..n |-> Digits[i + 1]]

Resolved(i) == GetNestedProperty(actualBody, nonEmptyFields[i])

IsBlank(v) == v.t = "str" /\ \A i \in 1..Len(v.s) : v.s[i] \in WhiteSpace

\* the listed positions whose value is undefined, null, a blank string, an
\* empty array, an object without keys or NaN
EmptyPositions ==
    {i \in 1..Len(nonEmptyFields) :
        \/ Resolved(i).t \in {"undef", "null", "nan"}
        \/ IsBlank(Resolved(i))
        \/ Resolved(i).t \in {"arr", "obj"} /\ Len(Resolved(i).c) = 0}

\* C11: validateNonEmptyFields raises exactly when some listed path resolves
\* to undefined, null, a blank string, an empty array, an object without keys
\* or NaN (never for false, 0 or a non-blank string), and the error is that of
\* the first such path of the list.
C11_NonEmptyExactly ==
    pc = "validateNonEmptyFields" =>
        /\ Raised(result) <=> EmptyPositions # {}
        /\ Raised(result) => result.err.at = nonEmptyFields[Min(EmptyPositions)]

\* two listed paths, the first resolving to false or 0 and the second to an
\* empty value: the call raises at the second
C11_Witness ==
    /\ pc = "validateNonEmptyFields"
    /\ Len(nonEmptyFields) = 2
    /\ Resolved(1) \in {Bool(FALSE), Num(0)}
    /\ EmptyPositions = {2}
    /\ Raised(result)
    /\ result.err.at = nonEmptyFields[2]

\* a number, or a string that is a decimal numeral or Infinity
IsNumeric(v) ==
    \/ v.t \in {"num", "nan", "inf"}
    \/ v.t = "str" /\ ~IsBlank(v) /\ StringToNumber(v.s).t # "nan"
NumericValue(v) == IF v.t = "str" THEN StringToNumber(v.s) ELSE v

\* -1,000,000,000 <= x <= 1,000,000,000 for a number x
WithinAmountBounds(x) ==
    x.t = "num" /\ (x.n < AmountBound \/ (x.n = AmountBound /\ x.f = 0))

\* the listed positions holding a numeric value that is not finite or lies
\* beyond the bounds
BadAmountPositions ==
    {i \in 1..Len(nonEmptyFields) :
        IsNumeric(Resolved(i)) /\ ~WithinAmountBounds(NumericValue(Resolved(i)))}

C13_NegativeAmountsRejected ==
    (/\ pc = "validateMonetaryAmounts"
     /\ \E i \in 1..Len(nonEmptyFields) :
           /\ IsNumeric(Resolved(i))
           /\ NumberLess(NumericValue(Resolved(i)), Num(0)))
    => Raised(result)

\* a string of at least n characters, all of them letters, digits, _ or -
IsIdOfLength(v, n) ==
    v.t = "str" /\ Len(v.s) >= n /\ \A i \in 1..Len(v.s) : v.s[i] \in IdChars

\* C14: validateTransactionIds raises exactly when some listed field resolves
\* to a value other than null and undefined that is not a string matching
\* ^[A-Za-z0-9_-]{6,}$ (so for 0, false and the empty string too).
C14_TransactionIdExactly ==
    pc = "validateTransactionIds" =>
        (Raised(result) <=>
            \E i \in 1..Len(nonEmptyFields) :
                Resolved(i).t \notin {"null", "undef"} /\ ~IsIdOfLength(Resolved(i), 6))

\* C15: a transaction ID is accepted only if it matches /^[A-Z0-9_-]{10,}$/i:
\* the call raises when a listed field holds a string that does not match it.
C15_DocumentedIdPattern ==
    (/\ pc = "validateTransactionIds"
     /\ \E i \in 1..Len(nonEmptyFields) :
           Resolved(i).t = "str" /\ Resolved(i).s # <<>> /\ ~IsIdOfLength(Resolved(i), 10))
    => Raised(result)

\* v > e as numbers
NumericallyExceeds(v, e) ==
    /\ ToNumber(v).t \in {"num", "inf"}
    /\ ToNumber(e).t \in {"num", "inf"}
    /\ NumberLess(ToNumber(e), ToNumber(v))

\* C16: for a greaterThan rule executeCustomValidation raises exactly when the
\* value resolved at rule.field does not numerically exceed rule.expectedValue
\* (an equal value and a missing field included).
C16_GreaterThanNumeric ==
    pc = "executeCustomValidation" =>
        (Raised(result) <=>
            ~NumericallyExceeds(GetNestedProperty(actualBody, args.validation.field),
                                args.validation.expectedValue))

(***************************************************************************)
(* Error messages of validateResponseBody, checked under SpecBody.         *)
(***************************************************************************)
\* C17: when validateResponseBody raises for a mismatch, the text of the error
\* names the full field path of the location where it was found (parent path
\* plus key or [index]), so that mismatches at different paths give different
\* errors.
C17_ErrorNamesFieldPath ==
    (Done /\ Raised(result) /\ result.err.kind # "TypeError")
    => result.err.key = result.err.at

C19_AuthenticatesWithoutCredentials ==
    (/\ pc = "authenticated"
     /\ args.credentials = Undefined
     /\ args.answer.status = Num(200)
     /\ Truthy(GetProp(args.answer.data, Key.access_token)))
    => /\ ~Raised(result)
       /\ Len(requests) = 1 /\ requests[1].kind = "auth"
       /\ accessToken = GetProp(args.answer.data, Key.access_token)

\* the requests of one kind sent so far
RequestsOfKind(kind) == {i \in 1..Len(requests) : requests[i].kind = kind}

\* C20: makeApiRequest sends the explicit token when one is given, otherwise
\* the cached access token, otherwise the configured token; it sends no
\* authentication request of its own, and without an explicit token a cached
\* access token is the one carried.
C20_TokenOrder ==
    pc = "done" =>
        LET sent == requests[Len(requests)]
            chosen == IF Truthy(args.token) THEN args.token
                      ELSE IF Truthy(accessToken) THEN accessToken
                      ELSE apiToken
        IN  /\ sent.kind = "api"
            /\ RequestsOfKind("api") = {Len(requests)}
            /\ RequestsOfKind("auth") =
                   (IF args.credentials = Undefined THEN {} ELSE {1})
            /\ Truthy(chosen) =>
                   sent.authorization \in {chosen, Str(Key.bearer \o chosen.s)}
            /\ ~Truthy(chosen) => sent.authorization = Undefined
            /\ (Truthy(accessToken) /\ ~Truthy(args.token)) =>
                   sent.authorization = Str(Key.bearer \o accessToken.s)

\* a request without explicit token made after a successful authentication,
\* with a configured token present: the cached token is carried
C20_Witness ==
    /\ pc = "done"
    /\ args.token = Null
    /\ Truthy(accessToken)
    /\ Truthy(apiToken)
    /\ Len(requests) = 2
    /\ requests[1].kind = "auth"
    /\ requests[2] = [kind |-> "api", authorization |-> Str(Key.bearer \o accessToken.s)]

(***************************************************************************)
(* Array-index paths in nonEmptyFields, checked under SpecApi.             *)
(***************************************************************************)
\* the listed paths with a bracketed index in their first segment
IndexedPaths ==
    {p \in {NonEmptyOrNone(expectedData)[i] : i \in 1..Len(NonEmptyOrNone(expectedData))} :
        Includes(SplitDot(p)[1], <<"[">>)}

\* C21: a nonEmptyFields path with an array index, as the structural walk
\* generates it (c[0].a), exempts the element's value from comparison in the
\* body passes but is looked up by the non-empty pass as the literal key
\* 'c[0]': unless the body has that literal key, validateApiResponse raises
\* "should exist" for the path once status and body passes succeed, even
\* when the element's field is present and non-empty.
C21_IndexedPathShouldExist ==
    Done =>
        \A p \in IndexedPaths :
            /\ ~(result.err.kind \in {"Value mismatch", "Null/undefined mismatch"}
                    /\ result.err.at = p)
            /\ (/\ ~Raised(StatusPass(response, expectedData))
                /\ ~Raised(ExactBodyPass(response, expectedData))
                /\ ~Raised(SubsetBodyPass(response, expectedData))
                /\ (~Truthy(response.data)
                        \/ GetProp(response.data, SplitDot(p)[1]) = Undefined))
               => /\ result.err.kind = "should exist"
                  /\ result.err.at = p

\* the element's field is present, non-empty and differs from the template's
\* value: the exact body pass lets it through and the non-empty pass raises
C21_Witness ==
    /\ Done
    /\ NonEmptyOrNone(expectedData) = <<Key.cItemA>>
    /\ ValueAtPath(expectedData.expectedBody, Key.cItemA) = Num(1)
    /\ ValueAtPath(response.data, Key.cItemA) = Num(0)
    /\ InSeq(<<"expectedBody">>, result.log)
    /\ ~Raised(ExactBodyPass(response, expectedData))
    /\ result.err.kind = "should exist"
    /\ result.err.at = Key.cItemA

(***************************************************************************)
(* TestUtilities.retry, checked under SpecRetry.                           *)
(***************************************************************************)
\* C22: retry calls fn at most maxRetries times and ends either returning
\* the value of the first attempt that succeeds, or, after maxRetries failed
\* attempts, throwing the error of the last attempt; it has waited
\* delay * 2^i ms after failed attempt i (0-based) except the last one.
C22_RetryContract ==
    pc \in {"returned", "thrown"} =>
        LET n == Len(args.calls)
        IN  /\ n <= args.maxRetries
            /\ \/ /\ pc = "returned"
                  /\ n >= 1
                  /\ ~args.calls[n].threw
                  /\ args.returned = args.calls[n].value
                  /\ \A k \in 1..(n - 1) : args.calls[k].threw
               \/ /\ pc = "thrown"
                  /\ n = args.maxRetries
                  /\ \A k \in 1..n : args.calls[k].threw
                  /\ result.err.kind = args.calls[n].value.s[1]
            /\ args.sleeps = [k \in 1..(n - 1) |-> args.delay * 2^(k - 1)]

(***************************************************************************)
(* executeRateLimitTest, checked under SpecRateLimit.                      *)
(***************************************************************************)
\* the requests (1-based) answered with the HTTP status expectedLimitStatus
LimitAnswers ==
    {k \in 1..Len(args.answers) : StrictEq(args.answers[k].status, args.expectedLimitStatus)}

\* C23: executeRateLimitTest sends at most requestCount requests, one after
\* another, and stops at the first response whose HTTP status equals
\* expectedLimitStatus, reporting the limit as enforced; when no response has
\* that status it ends after exactly requestCount requests with the
\* 'rate limit not reached' warning.
C23_RateLimitStopsAtLimitStatus ==
    /\ Len(requests) = Len(args.answers)
    /\ Len(requests) <= args.requestCount
    /\ \A k \in LimitAnswers : k = Len(args.answers)
    /\ pc # "loop" =>
          IF LimitAnswers # {}
          THEN pc = "done" /\ args.limitReached /\ ~args.warned
          ELSE pc = "done" /\ Len(requests) = args.requestCount /\ args.warned

(***************************************************************************)
(* The helper's lists and cached values over a sequence of calls, checked  *)
(* under SpecSession.                                                      *)
(***************************************************************************)
\* the positions of the calls of op in the history
CallsOf(op) == {k \in 1..Len(args.history) : args.history[k].op = op}

\* the greatest element of a set of positions, 0 when there is none
Last(S) == IF S = {} THEN 0 ELSE CHOOSE k \in S : \A j \in S : j <= k

\* a makeApiRequest call that was answered and whose three validation
\* calls completed
Completed(e) ==
    /\ e.op = "makeApiRequest"
    /\ e.resp # NoResponse
    /\ ~Raised(ValidateApiResponse(e.resp, e.doc))
    /\ ~Raised(PerformAdditionalValidations(e.resp, e.doc))

\* C25: responses holds exactly one entry per makeApiRequest call that
\* returned normally since the last clearResponses, in call order; a call
\* returns normally only when validateApiResponse, storeTestData and
\* performAdditionalValidations all completed, and a call that raised has no
\* entry.
C25_ResponsesRecordCompletedCalls ==
    LET h == args.history
        since == SubSeq(h, Last(CallsOf("clearResponses")) + 1, Len(h))
        kept == SelectSeq(since, Completed)
    IN  /\ \A k \in CallsOf("makeApiRequest") : h[k].raised <=> ~Completed(h[k])
        /\ responses = [k \in 1..Len(kept) |->
                           [status |-> kept[k].resp.status, data |-> kept[k].resp.data,
                            duration |-> kept[k].resp.duration]]

\* three requests, the second raising in performAdditionalValidations after
\* validateApiResponse passed: two entries, of the first and the third
C25_Witness ==
    /\ Len(args.history) = 3
    /\ CallsOf("makeApiRequest") = {1, 2, 3}
    /\ ~args.history[1].raised
    /\ args.history[2].raised /\ args.history[2].stored
    /\ ~args.history[3].raised
    /\ Len(responses) = 2
    /\ responses[1].data = args.history[1].resp.data
    /\ responses[2].data = args.history[3].resp.data
    /\ responses[1].data # responses[2].data

\* C26: a makeApiRequest call that raises leaves storedTestData as it was
\* (checked under SpecRequest, where nothing is stored before the request).
C26_RaisingRequestStoresNothing ==
    (pc = "done" /\ Raised(result)) => storedTestData = NoStoredTestData

\* the value of key carried by the most recent response given to
\* storeTestData since the last clearStoredTestData with a truthy value for
\* it, undefined when there is none
Held(key) ==
    LET h == args.history
        carrying == {k \in (Last(CallsOf("clearStoredTestData")) + 1)..Len(h) :
                        /\ h[k].stored
                        /\ Truthy(h[k].resp.data)
                        /\ Truthy(GetProp(h[k].resp.data, key))}
    IN  IF carrying = {} THEN Undefined ELSE GetProp(h[Last(carrying)].resp.data, key)

\* C27: each of storedTestData.transactionId, accountBalance and accountId
\* holds the value (the balance parsed as a number) of the most recent
\* response given to storeTestData that carried a truthy transactionId,
\* availableBalance or accountId, a response without the field or with a
\* numeric balance 0 leaving the entry untouched, until clearStoredTestData
\* empties the map.
C27_StoredEntriesKeepLastTruthy ==
    /\ storedTestData.transactionId = Held(Key.transactionId)
    /\ storedTestData.accountBalance =
           (IF Held(Key.availableBalance) = Undefined THEN Undefined
            ELSE ParseFloatOf(Held(Key.availableBalance)))
    /\ storedTestData.accountId = Held(Key.accountId)
    /\ \A k \in CallsOf("makeApiRequest") :
           args.history[k].stored <=>
               /\ args.history[k].resp # NoResponse
               /\ ~Raised(ValidateApiResponse(args.history[k].resp, args.history[k].doc))

\* a response with every field, then one with another transactionId, a
\* numeric balance 0 and no accountId: only the transactionId is replaced
C27_Witness ==
    /\ Len(args.history) = 2
    /\ args.history[1].stored /\ args.history[2].stored
    /\ GetProp(args.history[2].resp.data, Key.availableBalance) = Num(0)
    /\ GetProp(args.history[2].resp.data, Key.accountId) = Undefined
    /\ storedTestData.transactionId = GetProp(args.history[2].resp.data, Key.transactionId)
    /\ storedTestData.transactionId # GetProp(args.history[1].resp.data, Key.transactionId)
    /\ storedTestData.accountBalance = Dec(1, 10, 500)
    /\ storedTestData.accountId = Num(7)

\* the token cached after the first k calls: the access_token of the most
\* recent authentication that succeeded, null when there is none
CachedAfter(k) ==
    LET oks == {j \in CallsOf("authenticateAndGetToken") : j <= k /\ ~args.history[j].raised}
    IN  IF oks = {} THEN Null
        ELSE GetProp(args.history[Last(oks)].resp.data, Key.access_token)

\* C28: an authenticateAndGetToken call that fails (non-200 status, missing
\* access_token or request error) raises and leaves the cached accessToken
\* as it was, so that a later makeApiRequest without explicit token carries
\* the token of the last successful authentication.
C28_FailedAuthenticationKeepsToken ==
    LET h == args.history
        sent(k) == requests[Cardinality({j \in 1..k : h[j].op \in {"authenticateAndGetToken",
                                                                   "makeApiRequest"}})]
    IN  /\ accessToken = CachedAfter(Len(h))
        /\ \A k \in CallsOf("authenticateAndGetToken") :
               h[k].raised <=> ~(/\ h[k].resp.status = Num(200)
                                 /\ Truthy(h[k].resp.data)
                                 /\ Truthy(GetProp(h[k].resp.data, Key.access_token)))
        /\ \A k \in CallsOf("makeApiRequest") :
               (~Truthy(h[k].token) /\ Truthy(CachedAfter(k)))
                   => sent(k).authorization = Str(Key.bearer \o CachedAfter(k).s)

\* user A authenticates, user B fails to, and a request without token
\* carries A's token
C28_Witness ==
    /\ Len(args.history) = 3
    /\ args.history[1].op = "authenticateAndGetToken" /\ ~args.history[1].raised
    /\ args.history[1].token = Str(<<"A">>)
    /\ args.history[2].op = "authenticateAndGetToken" /\ args.history[2].raised
    /\ args.history[2].token = Str(<<"B">>)
    /\ args.history[3].op = "makeApiRequest" /\ args.history[3].token = Null
    /\ accessToken = Str(<<"A">>)
    /\ requests[3] = [kind |-> "api", authorization |-> Str(Key.bearer \o <<"A">>)]

C30_TransitionTable ==
    pc = "validatePaymentStatusTransition" =>
        /\ (Truthy(args.previousStatus) /\ ~Raised(result)) =>
               <<args.previousStatus, args.currentStatus>> \in
                   {<<PaymentStatus.initiated, PaymentStatus.pending>>,
                    <<PaymentStatus.processing, PaymentStatus.pending>>,
                    <<PaymentStatus.pending, PaymentStatus.processing>>,
                    <<PaymentStatus.processing, PaymentStatus.completed>>,
                    <<PaymentStatus.pending, PaymentStatus.failed>>,
                    <<PaymentStatus.processing, PaymentStatus.failed>>,
                    <<PaymentStatus.pending, PaymentStatus.cancelled>>,
                    <<PaymentStatus.initiated, PaymentStatus.cancelled>>,
                    <<PaymentStatus.completed, PaymentStatus.refunded>>}
        /\ args.currentStatus \notin ValidStatuses => Raised(result)

(***************************************************************************)
(* Exact mode and Subset mode, checked under SpecBody.                     *)
(***************************************************************************)
\* the generated paths a nested call is made with, besides ''
CurrentPaths == {<<>>, Key.a, ItemPath(Key.a, 1)}

\* C24: for every actual value, expected value, nonEmptyFields and current
\* path, validateResponseBody with isSubset = false raises exactly when it
\* does with isSubset = true, with the same error after the same checks;
\* the two calls differ only by the extra-properties warnings of exact mode.
C24_ModesOutcomeEquivalent ==
    Done =>
        /\ result = ValidateResponseBody(actualBody, expectedBody, isSubset,
                                         nonEmptyFields, <<>>)
        /\ \A currentPath \in CurrentPaths :
               LET exact == ValidateResponseBody(actualBody, expectedBody, FALSE,
                                                 nonEmptyFields, currentPath)
                   subset == ValidateResponseBody(actualBody, expectedBody, TRUE,
                                                  nonEmptyFields, currentPath)
                   NotExtra(w) == w.kind # "Extra properties"
               IN  /\ Raised(exact) <=> Raised(subset)
                   /\ exact.err = subset.err
                   /\ exact.log = subset.log
                   /\ subset.warns = SelectSeq(exact.warns, NotExtra)

\* an exact-mode call that warned about extra properties and then raised,
\* where the subset-mode call raises without warning
C24_Witness ==
    /\ Done
    /\ ~isSubset
    /\ Raised(result)
    /\ \E i \in 1..Len(result.warns) : result.warns[i].kind = "Extra properties"
    /\ ValidateResponseBody(actualBody, expectedBody, TRUE, nonEmptyFields, <<>>).warns = <<>>

====
